---------------------------- MODULE Spec2Model ----------------------------
(***************************************************************************)
(* A model of code-covered: the gap-analysis pipeline                      *)
(* (src/analyzer/coverage_gaps.py) and its MCP adapter                     *)
(* (src/mcp_code_covered/tool.py).                                         *)
(*                                                                         *)
(* Three specifications share the variables below:                         *)
(*   SpecAnalyze  one GapAnalyzer object analysing one source file;        *)
(*   SpecGen      GapSuggestionGenerator.generate on a list of blocks;     *)
(*   Spec         a host calling handle() with a request.                  *)
(*                                                                         *)
(* Python values are modelled as follows.  None is the string NONE.  A     *)
(* path is a record [dirs, stem, suffix] (pathlib's parts and stem).  A    *)
(* syntax tree is a table of nodes in breadth-first order.  A JSON value   *)
(* whose type the code does not check carries a type tag t.  The fields    *)
(* code_snippet, code_template and setup_hints are text that no decision   *)
(* of the pipeline reads; they are left out of the records.                *)
(***************************************************************************)
EXTENDS Integers, Sequences, FiniteSets, TLC

VARIABLES
    an,          \* SpecAnalyze: the fields of one GapAnalyzer object
    gen,         \* SpecGen: the arguments and the result of one generate() call
    request,     \* Spec: the request the host passes to handle()
    response,    \* Spec: what that call produced
    prev,        \* Spec: the call made just before (request and response)
    gaps         \* Spec: what find_coverage_gaps() gave for the same document

vars == <<an, gen, request, response, prev, gaps>>

NONE == "<None>"

-----------------------------------------------------------------------------
(* Bounds of the model.                                                    *)

\* Missing-line sets are drawn from the subsets of 1..MaxLine.
MaxLine == 5

\* generate() is applied to block lists of at most MaxBlocks blocks.
MaxBlocks == 2

\* A coverage document holds at most MaxFiles files.
MaxFiles == 2

-----------------------------------------------------------------------------
(* Small helpers over sequences and sets.                                  *)

Range(s) == {s[i] : i \in DOMAIN s}

Min(S) == CHOOSE x \in S : \A y \in S : x <= y
Max(S) == CHOOSE x \in S : \A y \in S : y <= x

RECURSIVE SeqOfSet(_)
\* sorted(S) for a set of integers
SeqOfSet(S) ==
    IF S = {} THEN <<>> ELSE <<Min(S)>> \o SeqOfSet(S \ {Min(S)})

\* list(range(a, b + 1))
RangeList(a, b) == [i \in 1..(IF b >= a THEN b - a + 1 ELSE 0) |-> a + i - 1]

-----------------------------------------------------------------------------
(* Paths.                                                                  *)

Path(dirs, stem) == [dirs |-> dirs, stem |-> stem, suffix |-> ".py"]

\* Path(root) / file_path, for a relative file_path
JoinPath(root, p) == [p EXCEPT !.dirs = root \o p.dirs]

-----------------------------------------------------------------------------
(* Source texts, as ast.parse sees them.  A node keeps what the analyzer   *)
(* reads: its class, lineno and end_lineno (0 when the node has none),     *)
(* the name of a definition, its child nodes in iter_child_nodes order,    *)
(* body and orelse of an If, and the text ast.unparse gives for the part   *)
(* the analyzer quotes (test of an If, type of a handler, value of a       *)
(* return, the exception named by a raise and the form it is named in).    *)
(* Expression-context and operator leaves (Load, Gt, ...) have no          *)
(* position and no children and are left out.                              *)

Node(kind, lineno, end_lineno, name, children, body, orelse, text, form) ==
    [kind |-> kind, lineno |-> lineno, end_lineno |-> end_lineno,
     name |-> name, children |-> children, body |-> body,
     orelse |-> orelse, text |-> text, form |-> form]

(* SrcIfBranch:
   1  def foo(x):
   2      if x > 0:
   3          return "positive"
   4      return "not positive"
*)
SrcIfBranch ==
    [parses |-> TRUE, nodes |-> <<
      Node("Module", 0, 0, NONE, <<2>>, <<>>, <<>>, NONE, ""),
      Node("FunctionDef", 1, 4, "foo", <<3, 4, 5>>, <<>>, <<>>, NONE, ""),
      Node("arguments", 0, 0, NONE, <<6>>, <<>>, <<>>, NONE, ""),
      Node("If", 2, 3, NONE, <<7, 8>>, <<8>>, <<>>, "x > 0", ""),
      Node("Return", 4, 4, NONE, <<9>>, <<>>, <<>>, "'not positive'", ""),
      Node("arg", 1, 1, NONE, <<>>, <<>>, <<>>, NONE, ""),
      Node("Compare", 2, 2, NONE, <<10, 11>>, <<>>, <<>>, NONE, ""),
      Node("Return", 3, 3, NONE, <<12>>, <<>>, <<>>, "'positive'", ""),
      Node("Constant", 4, 4, NONE, <<>>, <<>>, <<>>, NONE, ""),
      Node("Name", 2, 2, NONE, <<>>, <<>>, <<>>, NONE, ""),
      Node("Constant", 2, 2, NONE, <<>>, <<>>, <<>>, NONE, ""),
      Node("Constant", 3, 3, NONE, <<>>, <<>>, <<>>, NONE, "")
    >>]

(* SrcElseBranch:
   1  def foo(x):
   2      if x > 0:
   3          return "positive"
   4      else:
   5          return "not positive"
*)
SrcElseBranch ==
    [parses |-> TRUE, nodes |-> <<
      Node("Module", 0, 0, NONE, <<2>>, <<>>, <<>>, NONE, ""),
      Node("FunctionDef", 1, 5, "foo", <<3, 4>>, <<>>, <<>>, NONE, ""),
      Node("arguments", 0, 0, NONE, <<5>>, <<>>, <<>>, NONE, ""),
      Node("If", 2, 5, NONE, <<6, 7, 8>>, <<7>>, <<8>>, "x > 0", ""),
      Node("arg", 1, 1, NONE, <<>>, <<>>, <<>>, NONE, ""),
      Node("Compare", 2, 2, NONE, <<9, 10>>, <<>>, <<>>, NONE, ""),
      Node("Return", 3, 3, NONE, <<11>>, <<>>, <<>>, "'positive'", ""),
      Node("Return", 5, 5, NONE, <<12>>, <<>>, <<>>, "'not positive'", ""),
      Node("Name", 2, 2, NONE, <<>>, <<>>, <<>>, NONE, ""),
      Node("Constant", 2, 2, NONE, <<>>, <<>>, <<>>, NONE, ""),
      Node("Constant", 3, 3, NONE, <<>>, <<>>, <<>>, NONE, ""),
      Node("Constant", 5, 5, NONE, <<>>, <<>>, <<>>, NONE, "")
    >>]

(* SrcExcept:
   1  def foo():
   2      try:
   3          risky_call()
   4      except ValueError:
   5          handle_error()
*)
SrcExcept ==
    [parses |-> TRUE, nodes |-> <<
      Node("Module", 0, 0, NONE, <<2>>, <<>>, <<>>, NONE, ""),
      Node("FunctionDef", 1, 5, "foo", <<3, 4>>, <<>>, <<>>, NONE, ""),
      Node("arguments", 0, 0, NONE, <<>>, <<>>, <<>>, NONE, ""),
      Node("Try", 2, 5, NONE, <<5, 6>>, <<>>, <<>>, NONE, ""),
      Node("Expr", 3, 3, NONE, <<7>>, <<>>, <<>>, NONE, ""),
      Node("ExceptHandler", 4, 5, NONE, <<8, 9>>, <<>>, <<>>, "ValueError", ""),
      Node("Call", 3, 3, NONE, <<10>>, <<>>, <<>>, NONE, ""),
      Node("Name", 4, 4, NONE, <<>>, <<>>, <<>>, NONE, ""),
      Node("Expr", 5, 5, NONE, <<11>>, <<>>, <<>>, NONE, ""),
      Node("Name", 3, 3, NONE, <<>>, <<>>, <<>>, NONE, ""),
      Node("Call", 5, 5, NONE, <<12>>, <<>>, <<>>, NONE, ""),
      Node("Name", 5, 5, NONE, <<>>, <<>>, <<>>, NONE, "")
    >>]

(* SrcRaise:
   1  def foo(x):
   2      if x < 0:
   3          raise ValueError("negative")
   4      return x
*)
SrcRaise ==
    [parses |-> TRUE, nodes |-> <<
      Node("Module", 0, 0, NONE, <<2>>, <<>>, <<>>, NONE, ""),
      Node("FunctionDef", 1, 4, "foo", <<3, 4, 5>>, <<>>, <<>>, NONE, ""),
      Node("arguments", 0, 0, NONE, <<6>>, <<>>, <<>>, NONE, ""),
      Node("If", 2, 3, NONE, <<7, 8>>, <<8>>, <<>>, "x < 0", ""),
      Node("Return", 4, 4, NONE, <<9>>, <<>>, <<>>, "x", ""),
      Node("arg", 1, 1, NONE, <<>>, <<>>, <<>>, NONE, ""),
      Node("Compare", 2, 2, NONE, <<10, 11>>, <<>>, <<>>, NONE, ""),
      Node("Raise", 3, 3, NONE, <<12>>, <<>>, <<>>, "ValueError", "call_name"),
      Node("Name", 4, 4, NONE, <<>>, <<>>, <<>>, NONE, ""),
      Node("Name", 2, 2, NONE, <<>>, <<>>, <<>>, NONE, ""),
      Node("Constant", 2, 2, NONE, <<>>, <<>>, <<>>, NONE, ""),
      Node("Call", 3, 3, NONE, <<13, 14>>, <<>>, <<>>, NONE, ""),
      Node("Name", 3, 3, NONE, <<>>, <<>>, <<>>, NONE, ""),
      Node("Constant", 3, 3, NONE, <<>>, <<>>, <<>>, NONE, "")
    >>]

(* SrcLoop:
   1  def foo(items):
   2      for item in items:
   3          process(item)
*)
SrcLoop ==
    [parses |-> TRUE, nodes |-> <<
      Node("Module", 0, 0, NONE, <<2>>, <<>>, <<>>, NONE, ""),
      Node("FunctionDef", 1, 3, "foo", <<3, 4>>, <<>>, <<>>, NONE, ""),
      Node("arguments", 0, 0, NONE, <<5>>, <<>>, <<>>, NONE, ""),
      Node("For", 2, 3, NONE, <<6, 7, 8>>, <<>>, <<>>, NONE, ""),
      Node("arg", 1, 1, NONE, <<>>, <<>>, <<>>, NONE, ""),
      Node("Name", 2, 2, NONE, <<>>, <<>>, <<>>, NONE, ""),
      Node("Name", 2, 2, NONE, <<>>, <<>>, <<>>, NONE, ""),
      Node("Expr", 3, 3, NONE, <<9>>, <<>>, <<>>, NONE, ""),
      Node("Call", 3, 3, NONE, <<10, 11>>, <<>>, <<>>, NONE, ""),
      Node("Name", 3, 3, NONE, <<>>, <<>>, <<>>, NONE, ""),
      Node("Name", 3, 3, NONE, <<>>, <<>>, <<>>, NONE, "")
    >>]

(* SrcClass:
   1  class MyClass:
   2      def method(self, x):
   3          if x:
   4              return True
   5          return False
*)
SrcClass ==
    [parses |-> TRUE, nodes |-> <<
      Node("Module", 0, 0, NONE, <<2>>, <<>>, <<>>, NONE, ""),
      Node("ClassDef", 1, 5, "MyClass", <<3>>, <<>>, <<>>, NONE, ""),
      Node("FunctionDef", 2, 5, "method", <<4, 5, 6>>, <<>>, <<>>, NONE, ""),
      Node("arguments", 0, 0, NONE, <<7, 8>>, <<>>, <<>>, NONE, ""),
      Node("If", 3, 4, NONE, <<9, 10>>, <<10>>, <<>>, "x", ""),
      Node("Return", 5, 5, NONE, <<11>>, <<>>, <<>>, "False", ""),
      Node("arg", 2, 2, NONE, <<>>, <<>>, <<>>, NONE, ""),
      Node("arg", 2, 2, NONE, <<>>, <<>>, <<>>, NONE, ""),
      Node("Name", 3, 3, NONE, <<>>, <<>>, <<>>, NONE, ""),
      Node("Return", 4, 4, NONE, <<12>>, <<>>, <<>>, "True", ""),
      Node("Constant", 5, 5, NONE, <<>>, <<>>, <<>>, NONE, ""),
      Node("Constant", 4, 4, NONE, <<>>, <<>>, <<>>, NONE, "")
    >>]

(* SrcMixed:
   1  if not __debug__: raise SystemExit
   2  class K:
   3      def m(self): return K.__name__
   4  def g(x):
   5      while x: x -= 1
*)
SrcMixed ==
    [parses |-> TRUE, nodes |-> <<
      Node("Module", 0, 0, NONE, <<2, 3, 4>>, <<>>, <<>>, NONE, ""),
      Node("If", 1, 1, NONE, <<5, 6>>, <<6>>, <<>>, "not __debug__", ""),
      Node("ClassDef", 2, 3, "K", <<7>>, <<>>, <<>>, NONE, ""),
      Node("FunctionDef", 4, 5, "g", <<8, 9>>, <<>>, <<>>, NONE, ""),
      Node("UnaryOp", 1, 1, NONE, <<10>>, <<>>, <<>>, NONE, ""),
      Node("Raise", 1, 1, NONE, <<11>>, <<>>, <<>>, "SystemExit", "name"),
      Node("FunctionDef", 3, 3, "m", <<12, 13>>, <<>>, <<>>, NONE, ""),
      Node("arguments", 0, 0, NONE, <<14>>, <<>>, <<>>, NONE, ""),
      Node("While", 5, 5, NONE, <<15, 16>>, <<>>, <<>>, NONE, ""),
      Node("Name", 1, 1, NONE, <<>>, <<>>, <<>>, NONE, ""),
      Node("Name", 1, 1, NONE, <<>>, <<>>, <<>>, NONE, ""),
      Node("arguments", 0, 0, NONE, <<17>>, <<>>, <<>>, NONE, ""),
      Node("Return", 3, 3, NONE, <<18>>, <<>>, <<>>, "K.__name__", ""),
      Node("arg", 4, 4, NONE, <<>>, <<>>, <<>>, NONE, ""),
      Node("Name", 5, 5, NONE, <<>>, <<>>, <<>>, NONE, ""),
      Node("AugAssign", 5, 5, NONE, <<19, 20>>, <<>>, <<>>, NONE, ""),
      Node("arg", 3, 3, NONE, <<>>, <<>>, <<>>, NONE, ""),
      Node("Attribute", 3, 3, NONE, <<21>>, <<>>, <<>>, NONE, ""),
      Node("Name", 5, 5, NONE, <<>>, <<>>, <<>>, NONE, ""),
      Node("Constant", 5, 5, NONE, <<>>, <<>>, <<>>, NONE, ""),
      Node("Name", 3, 3, NONE, <<>>, <<>>, <<>>, NONE, "")
    >>]

(* SrcNested:
   1  def outer(x):
   2      def inner(y):
   3          return y
   4      return inner
*)
SrcNested ==
    [parses |-> TRUE, nodes |-> <<
      Node("Module", 0, 0, NONE, <<2>>, <<>>, <<>>, NONE, ""),
      Node("FunctionDef", 1, 4, "outer", <<3, 4, 5>>, <<>>, <<>>, NONE, ""),
      Node("arguments", 0, 0, NONE, <<6>>, <<>>, <<>>, NONE, ""),
      Node("FunctionDef", 2, 3, "inner", <<7, 8>>, <<>>, <<>>, NONE, ""),
      Node("Return", 4, 4, NONE, <<9>>, <<>>, <<>>, "inner", ""),
      Node("arg", 1, 1, NONE, <<>>, <<>>, <<>>, NONE, ""),
      Node("arguments", 0, 0, NONE, <<10>>, <<>>, <<>>, NONE, ""),
      Node("Return", 3, 3, NONE, <<11>>, <<>>, <<>>, "y", ""),
      Node("Name", 4, 4, NONE, <<>>, <<>>, <<>>, NONE, ""),
      Node("arg", 2, 2, NONE, <<>>, <<>>, <<>>, NONE, ""),
      Node("Name", 3, 3, NONE, <<>>, <<>>, <<>>, NONE, "")
    >>]

(* SrcIfBody:
   1  def f(x):
   2      if x:
   3          a = 1
   4          b = 2
   5      else: return 0
*)
SrcIfBody ==
    [parses |-> TRUE, nodes |-> <<
      Node("Module", 0, 0, NONE, <<2>>, <<>>, <<>>, NONE, ""),
      Node("FunctionDef", 1, 5, "f", <<3, 4>>, <<>>, <<>>, NONE, ""),
      Node("arguments", 0, 0, NONE, <<5>>, <<>>, <<>>, NONE, ""),
      Node("If", 2, 5, NONE, <<6, 7, 8, 9>>, <<7, 8>>, <<9>>, "x", ""),
      Node("arg", 1, 1, NONE, <<>>, <<>>, <<>>, NONE, ""),
      Node("Name", 2, 2, NONE, <<>>, <<>>, <<>>, NONE, ""),
      Node("Assign", 3, 3, NONE, <<10, 11>>, <<>>, <<>>, NONE, ""),
      Node("Assign", 4, 4, NONE, <<12, 13>>, <<>>, <<>>, NONE, ""),
      Node("Return", 5, 5, NONE, <<14>>, <<>>, <<>>, "0", ""),
      Node("Name", 3, 3, NONE, <<>>, <<>>, <<>>, NONE, ""),
      Node("Constant", 3, 3, NONE, <<>>, <<>>, <<>>, NONE, ""),
      Node("Name", 4, 4, NONE, <<>>, <<>>, <<>>, NONE, ""),
      Node("Constant", 4, 4, NONE, <<>>, <<>>, <<>>, NONE, ""),
      Node("Constant", 5, 5, NONE, <<>>, <<>>, <<>>, NONE, "")
    >>]

(* SrcBroken:
   1  def broken(
*)
SrcBroken ==
    [parses |-> FALSE, nodes |-> <<>>]

SourceNames ==
    {"SrcIfBranch", "SrcElseBranch", "SrcExcept", "SrcRaise", "SrcLoop",
     "SrcClass", "SrcMixed", "SrcNested", "SrcIfBody",
     "SrcBroken"}

\* the text behind a source name
SourceText(name) ==
    CASE name = "SrcIfBranch" -> SrcIfBranch
      [] name = "SrcElseBranch" -> SrcElseBranch
      [] name = "SrcExcept" -> SrcExcept
      [] name = "SrcRaise" -> SrcRaise
      [] name = "SrcLoop" -> SrcLoop
      [] name = "SrcClass" -> SrcClass
      [] name = "SrcMixed" -> SrcMixed
      [] name = "SrcNested" -> SrcNested
      [] name = "SrcIfBody" -> SrcIfBody
      [] name = "SrcBroken" -> SrcBroken

-----------------------------------------------------------------------------
(* UncoveredBlock                                                          *)

UncoveredBlock(file_path, start_line, end_line, function_name, class_name, block_type, condition) ==
    [file_path |-> file_path, start_line |-> start_line,
     end_line |-> end_line, function_name |-> function_name,
     class_name |-> class_name, block_type |-> block_type,
     condition |-> condition]

-----------------------------------------------------------------------------
(* GapAnalyzer.  The object's fields are a record; the recursion of the    *)
(* visitor is the field stack, whose frames are the calls still to make:   *)
(*   visit(node), _analyze_node(node), and the two assignments that        *)
(*   restore _current_class and _current_function after generic_visit.     *)
(* The field tree is the local variable tree of analyze().                 *)

Frame(op, node, old) == [op |-> op, node |-> node, old |-> old]

\* GapAnalyzer.__init__
GapAnalyzer(source_code, missing_lines) ==
    [source_code |-> source_code,
     missing_lines |-> missing_lines,
     uncovered_blocks |-> <<>>,
     current_class |-> NONE,
     current_function |-> NONE,
     current_file |-> Path(<<>>, ""),
     seen_blocks |-> {},
     tree |-> <<>>,
     stack |-> <<>>,
     phase |-> "new"]

\* tree = ast.parse(self.source_code), kept beside the fields while
\* analyze() runs
NodesOf(a) == a.tree

RECURSIVE WalkFrom(_, _)
\* ast.walk: breadth-first, a node before its children
WalkFrom(nodes, todo) ==
    IF todo = <<>> THEN <<>>
    ELSE <<Head(todo)>> \o WalkFrom(nodes, Tail(todo) \o nodes[Head(todo)].children)

walk(nodes, n) == WalkFrom(nodes, <<n>>)

\* node.end_lineno or node.lineno
EndLine(node) == IF node.end_lineno # 0 THEN node.end_lineno ELSE node.lineno

\* the calls generic_visit(node) makes, in order
VisitChildren(nodes, n) ==
    [i \in 1..Len(nodes[n].children) |-> Frame("visit", nodes[n].children[i], NONE)]

RECURSIVE GroupLinesFromFirst(_, _, _)
\* variant of GroupLines: a line is compared with the first line of the
\* current group instead of the last
GroupLinesFromFirst(rest, groups, current_group) ==
    IF rest = <<>> THEN Append(groups, current_group)
    ELSE IF Head(rest) = current_group[1] + 1
         THEN GroupLinesFromFirst(Tail(rest), groups, Append(current_group, Head(rest)))
         ELSE GroupLinesFromFirst(Tail(rest), Append(groups, current_group), <<Head(rest)>>)

RECURSIVE GroupLines(_, _, _)
\* the loop of GapAnalyzer._analyze_by_lines: the groups of consecutive
\* lines
GroupLines(rest, groups, current_group) ==
    IF rest = <<>> THEN Append(groups, current_group)
    ELSE IF Head(rest) = current_group[Len(current_group)] + 1
         THEN GroupLines(Tail(rest), groups, Append(current_group, Head(rest)))
         ELSE GroupLines(Tail(rest), Append(groups, current_group), <<Head(rest)>>)

\* variant of analyze_by_lines: no early return on an empty missing set,
\* the first group starting from line 0
analyze_by_lines_no_guard(a) ==
    LET sorted_missing == SeqOfSet(a.missing_lines)
        groups == IF sorted_missing = <<>> THEN <<<<0>>>>
                  ELSE GroupLines(Tail(sorted_missing), <<>>, <<sorted_missing[1]>>)
        new == [i \in 1..Len(groups) |->
                  UncoveredBlock(a.current_file, groups[i][1],
                                 groups[i][Len(groups[i])], NONE, NONE,
                                 "code_block", NONE)]
    IN [a EXCEPT !.uncovered_blocks = @ \o new]

\* GapAnalyzer._analyze_by_lines
analyze_by_lines(a) ==
    LET sorted_missing == SeqOfSet(a.missing_lines)
        groups == GroupLines(Tail(sorted_missing), <<>>, <<sorted_missing[1]>>)
        new == [i \in 1..Len(groups) |->
                  UncoveredBlock(a.current_file, groups[i][1],
                                 groups[i][Len(groups[i])], NONE, NONE,
                                 "code_block", NONE)]
    IN IF sorted_missing = <<>> THEN a
       ELSE [a EXCEPT !.uncovered_blocks = @ \o new]

\* GapAnalyzer.analyze, up to the call of visit(tree) or of the fallback
analyze(a, file_path) ==
    LET b == [a EXCEPT !.current_file = file_path]
    IN IF SourceText(a.source_code).parses
       THEN [b EXCEPT !.tree = SourceText(a.source_code).nodes,
                      !.stack = <<Frame("visit", 1, NONE)>>, !.phase = "running"]
       ELSE [analyze_by_lines(b) EXCEPT !.phase = "returned"]

\* GapAnalyzer.visit_ClassDef
visit_ClassDef(a, n, rest) ==
    [a EXCEPT !.current_class = NodesOf(a)[n].name,
              !.stack = VisitChildren(NodesOf(a), n)
                        \o <<Frame("restore_class", 0, a.current_class)>> \o rest]

\* GapAnalyzer._analyze_function (visit_FunctionDef, visit_AsyncFunctionDef)
analyze_function(a, n, rest) ==
    LET node == NodesOf(a)[n]
        func_lines == node.lineno .. EndLine(node)
        uncovered_in_func == func_lines \cap a.missing_lines
        order == walk(NodesOf(a), n)
        inspect == IF uncovered_in_func # {}
                   THEN [i \in 1..Len(order) |-> Frame("analyze", order[i], NONE)]
                   ELSE <<>>
    IN [a EXCEPT !.current_function = node.name,
                 !.stack = inspect \o VisitChildren(NodesOf(a), n)
                           \o <<Frame("restore_function", 0, a.current_function)>>
                           \o rest]

\* variant of visit: a node that is neither a class nor a function is
\* analysed where it is met
visit_analysing(a, n, rest) ==
    LET kind == NodesOf(a)[n].kind
    IN IF kind = "ClassDef" THEN visit_ClassDef(a, n, rest)
       ELSE IF kind \in {"FunctionDef", "AsyncFunctionDef"} THEN analyze_function(a, n, rest)
       ELSE [a EXCEPT !.stack = <<Frame("analyze", n, NONE)>>
                                \o VisitChildren(NodesOf(a), n) \o rest]

\* NodeVisitor.visit: dispatch on the node's class
visit(a, n, rest) ==
    LET kind == NodesOf(a)[n].kind
    IN IF kind = "ClassDef" THEN visit_ClassDef(a, n, rest)
       ELSE IF kind \in {"FunctionDef", "AsyncFunctionDef"} THEN analyze_function(a, n, rest)
       ELSE [a EXCEPT !.stack = VisitChildren(NodesOf(a), n) \o rest]

\* the line numbers of the statements of a body
BodyLines(nodes, body) ==
    {nodes[body[i]].lineno : i \in {j \in DOMAIN body : nodes[body[j]].lineno # 0}}

\* GapAnalyzer._analyze_if
analyze_if(a, n) ==
    LET nodes == NodesOf(a)
        node == nodes[n]
        condition == node.text
        if_body_lines == BodyLines(nodes, node.body)
        else_body_lines == BodyLines(nodes, node.orelse)
        end_line == IF if_body_lines # {} THEN Max(if_body_lines) ELSE node.lineno
        true_block ==
            IF if_body_lines \cap a.missing_lines # {}
            THEN <<UncoveredBlock(a.current_file, node.lineno, end_line,
                                  a.current_function, a.current_class,
                                  "if_true_branch",
                                  "when " \o condition \o " is True")>>
            ELSE <<>>
        false_block ==
            IF else_body_lines \cap a.missing_lines # {}
            THEN <<UncoveredBlock(a.current_file, Min(else_body_lines),
                                  Max(else_body_lines),
                                  a.current_function, a.current_class,
                                  "if_false_branch",
                                  "when " \o condition \o " is False")>>
            ELSE <<>>
    IN [a EXCEPT !.uncovered_blocks = @ \o true_block \o false_block]

\* GapAnalyzer._analyze_except
analyze_except(a, n) ==
    LET node == NodesOf(a)[n]
        exc_type == IF node.text # NONE THEN node.text ELSE "Exception"
    IN [a EXCEPT !.uncovered_blocks =
            Append(@, UncoveredBlock(a.current_file, node.lineno, EndLine(node),
                                     a.current_function, a.current_class,
                                     "exception_handler",
                                     "when " \o exc_type \o " is raised"))]

\* GapAnalyzer._analyze_return
analyze_return(a, n) ==
    LET node == NodesOf(a)[n]
        value == IF node.text # NONE THEN node.text ELSE "None"
    IN [a EXCEPT !.uncovered_blocks =
            Append(@, UncoveredBlock(a.current_file, node.lineno, node.lineno,
                                     a.current_function, a.current_class,
                                     "return_statement", "return " \o value))]

\* GapAnalyzer._analyze_raise
analyze_raise(a, n) ==
    LET node == NodesOf(a)[n]
        exc_type == IF node.form \in {"call_name", "name"} THEN node.text
                    ELSE "Exception"
    IN [a EXCEPT !.uncovered_blocks =
            Append(@, UncoveredBlock(a.current_file, node.lineno, node.lineno,
                                     a.current_function, a.current_class,
                                     "raise_statement", "raise " \o exc_type))]

\* GapAnalyzer._analyze_loop
analyze_loop(a, n) ==
    LET node == NodesOf(a)[n]
        loop_type == IF node.kind = "For" THEN "for" ELSE "while"
    IN [a EXCEPT !.uncovered_blocks =
            Append(@, UncoveredBlock(a.current_file, node.lineno, EndLine(node),
                                     a.current_function, a.current_class,
                                     loop_type \o "_loop", NONE))]

\* GapAnalyzer._analyze_node
analyze_node(a, n) ==
    LET node == NodesOf(a)[n]
        line == node.lineno
        block_key == <<line, EndLine(node)>>
        seen == [a EXCEPT !.seen_blocks = @ \cup {block_key}]
    IN IF line = 0 THEN a
       ELSE IF line \notin a.missing_lines THEN a
       ELSE IF block_key \in a.seen_blocks THEN a
       ELSE IF node.kind = "If" THEN analyze_if(seen, n)
       ELSE IF node.kind = "ExceptHandler" THEN analyze_except(seen, n)
       ELSE IF node.kind = "Return" THEN analyze_return(seen, n)
       ELSE IF node.kind = "Raise" THEN analyze_raise(seen, n)
       ELSE IF node.kind \in {"For", "While"} THEN analyze_loop(seen, n)
       ELSE seen

\* analyze() returns once visit(tree) has returned
Returned(a) == IF a.stack = <<>> THEN [a EXCEPT !.phase = "returned"] ELSE a

\* the call on top of the stack, made
AnalyzerStep(a) ==
    LET top == Head(a.stack)
        rest == Tail(a.stack)
        popped == [a EXCEPT !.stack = rest]
    IN Returned(
        CASE top.op = "visit" -> visit(a, top.node, rest)
          [] top.op = "analyze" -> analyze_node(popped, top.node)
          [] top.op = "restore_class" -> [popped EXCEPT !.current_class = top.old]
          [] top.op = "restore_function" -> [popped EXCEPT !.current_function = top.old])

RECURSIVE RunToReturn(_)
RunToReturn(a) ==
    IF a.phase = "returned" THEN a ELSE RunToReturn(AnalyzerStep(a))

\* GapAnalyzer(source_code, missing_lines).analyze(file_path), as one call
AnalyzeFile(source_code, missing_lines, file_path) ==
    RunToReturn(analyze(GapAnalyzer(source_code, missing_lines), file_path)).uncovered_blocks

-----------------------------------------------------------------------------
(* Strings are compared by Python in code-point order.  StringsInOrder     *)
(* lists, in that order, the strings the pipeline compares in this model:  *)
(* the test_file values of the sort key of generate() and the warnings     *)
(* handle() sorts.                                                         *)

StringsInOrder ==
    <<"Error reading pkg: [Errno 21] Is a directory: 'pkg'",
      "Error reading repo/pkg: [Errno 21] Is a directory: 'repo/pkg'",
      "Permission denied reading: repo/secret.py",
      "Permission denied reading: secret.py",
      "Source file not found: data/parser.py",
      "Source file not found: gone.py",
      "Source file not found: repo/data/parser.py",
      "Source file not found: repo/src/validator.py",
      "Source file not found: repo/utils/validator.py",
      "Source file not found: src/validator.py",
      "Source file not found: utils/validator.py",
      "tests/test_data_parser.py",
      "tests/test_gone.py",
      "tests/test_pkg.py",
      "tests/test_secret.py",
      "tests/test_test.py",
      "tests/test_utils_validator.py",
      "tests/test_validator.py">>

StrIndex(s) == CHOOSE i \in DOMAIN StringsInOrder : StringsInOrder[i] = s

\* a < b on str
StrLess(a, b) == StrIndex(a) < StrIndex(b)

RECURSIVE JoinStr(_, _)
\* sep.join(parts)
JoinStr(parts, sep) ==
    IF parts = <<>> THEN ""
    ELSE IF Len(parts) = 1 THEN parts[1]
    ELSE parts[1] \o sep \o JoinStr(Tail(parts), sep)

\* str(path)
PathStr(p) == JoinStr(p.dirs \o <<p.stem \o p.suffix>>, "/")

-----------------------------------------------------------------------------
(* GapSuggestion and GapSuggestionGenerator                                *)

GapSuggestion(test_name, test_file, description, covers_lines, priority, block_type) ==
    [test_name |-> test_name, test_file |-> test_file,
     description |-> description, covers_lines |-> covers_lines,
     priority |-> priority, block_type |-> block_type]

\* GapSuggestionGenerator._to_snake_case on the class names of the model:
\* what the two substitutions and lower() give for each
to_snake_case(name) ==
    CASE name = "MyClass" -> "my_class"
      [] name = "K" -> "k"
      [] name = "HTTPHandler" -> "http_handler"

type_suffixes ==
    [if_true_branch |-> "when_condition_true",
     if_false_branch |-> "when_condition_false",
     exception_handler |-> "handles_exception",
     raise_statement |-> "raises_error",
     return_statement |-> "returns_early",
     for_loop |-> "iterates_items",
     while_loop |-> "loops_until_done"]

\* GapSuggestionGenerator._generate_test_name
generate_test_name(block) ==
    LET suffix == IF block.block_type \in DOMAIN type_suffixes
                  THEN type_suffixes[block.block_type] ELSE ""
        parts == <<"test">>
                 \o (IF block.class_name \notin {NONE, ""}
                     THEN <<to_snake_case(block.class_name)>> ELSE <<>>)
                 \o (IF block.function_name \notin {NONE, ""}
                     THEN <<block.function_name>> ELSE <<>>)
                 \o (IF suffix # "" THEN <<suffix>> ELSE <<>>)
    IN JoinStr(parts, "_")

\* variant of determine_priority: the branch types are not ranked high
determine_priority_no_branch(block) ==
    IF block.block_type \in {"exception_handler", "raise_statement"} THEN "critical"
    ELSE IF block.function_name \notin {NONE, ""} THEN "medium"
    ELSE "low"

\* GapSuggestionGenerator._determine_priority
determine_priority(block) ==
    LET critical_types == {"exception_handler", "raise_statement"}
        high_types == {"if_true_branch", "if_false_branch"}
    IN IF block.block_type \in critical_types THEN "critical"
       ELSE IF block.block_type \in high_types THEN "high"
       ELSE IF block.function_name \notin {NONE, ""} THEN "medium"
       ELSE "low"

\* GapSuggestionGenerator._generate_description: the parts that are joined.
\* in_function is NONE when "In ...()" is left out, in_class is NONE when
\* the class is left out of it, condition is NONE when "- ..." is left out.
generate_description(block) ==
    LET has_function == block.function_name \notin {NONE, ""}
        has_class == block.class_name \notin {NONE, ""}
    IN [in_class |-> IF has_function /\ has_class THEN block.class_name ELSE NONE,
        in_function |-> IF has_function THEN block.function_name ELSE NONE,
        start_line |-> block.start_line,
        end_line |-> block.end_line,
        condition |-> IF block.condition \notin {NONE, ""} THEN block.condition ELSE NONE]

\* variant of suggest_test_file: the first segment of the path is taken
\* for the parent
suggest_test_file_first_segment(source_path) ==
    LET parts == source_path.dirs \o <<source_path.stem \o source_path.suffix>>
        parent == parts[1]
    IN IF Len(parts) >= 2 /\ parent \notin {"src", "lib", ".", "app"}
       THEN "tests/test_" \o parent \o "_" \o source_path.stem \o ".py"
       ELSE "tests/test_" \o source_path.stem \o ".py"

\* GapSuggestionGenerator._suggest_test_file
suggest_test_file(source_path) ==
    LET parts == source_path.dirs \o <<source_path.stem \o source_path.suffix>>
        parent == parts[Len(parts) - 1]
    IN IF Len(parts) >= 2 /\ parent \notin {"src", "lib", ".", "app"}
       THEN "tests/test_" \o parent \o "_" \o source_path.stem \o ".py"
       ELSE "tests/test_" \o source_path.stem \o ".py"

\* variant of create_suggestion: the range of covers_lines stops before
\* end_line
create_suggestion_open_range(block, file_path) ==
    GapSuggestion(generate_test_name(block),
                  suggest_test_file(file_path),
                  generate_description(block),
                  RangeList(block.start_line, block.end_line - 1),
                  determine_priority(block),
                  block.block_type)

\* GapSuggestionGenerator._create_suggestion
create_suggestion(block, file_path) ==
    GapSuggestion(generate_test_name(block),
                  suggest_test_file(file_path),
                  generate_description(block),
                  RangeList(block.start_line, block.end_line),
                  determine_priority(block),
                  block.block_type)

\* the dict priority_order of generate()
priority_order == [critical |-> 0, high |-> 1, medium |-> 2, low |-> 3]

\* variant of SortKey: the first covered line is left out of the key
SortKeyNoLine(s) ==
    <<IF s.priority \in DOMAIN priority_order THEN priority_order[s.priority] ELSE 4,
      s.test_file,
      0>>

\* the sort key of generate()
SortKey(s) ==
    <<IF s.priority \in DOMAIN priority_order THEN priority_order[s.priority] ELSE 4,
      s.test_file,
      IF s.covers_lines # <<>> THEN s.covers_lines[1] ELSE 0>>

\* k1 < k2 on the key tuples
KeyLess(k1, k2) ==
    \/ k1[1] < k2[1]
    \/ k1[1] = k2[1] /\ StrLess(k1[2], k2[2])
    \/ k1[1] = k2[1] /\ k1[2] = k2[2] /\ k1[3] < k2[3]

RECURSIVE InsertByKey(_, _)
\* s placed behind every element whose key is not greater (list.sort is stable)
InsertByKey(s, sorted) ==
    IF sorted = <<>> THEN <<s>>
    ELSE IF KeyLess(SortKey(s), SortKey(Head(sorted))) THEN <<s>> \o sorted
    ELSE <<Head(sorted)>> \o InsertByKey(s, Tail(sorted))

RECURSIVE SortSuggestions(_)
\* suggestions.sort(key=...) of generate()
SortSuggestions(suggestions) ==
    IF suggestions = <<>> THEN <<>>
    ELSE InsertByKey(suggestions[Len(suggestions)],
                     SortSuggestions(SubSeq(suggestions, 1, Len(suggestions) - 1)))

\* GapSuggestionGenerator.generate
generate(blocks, file_path) ==
    SortSuggestions([i \in 1..Len(blocks) |-> create_suggestion(blocks[i], file_path)])

-----------------------------------------------------------------------------
(* JSON values of a request.  A value whose type handle() does not check   *)
(* is a record [t, s, n]: its type tag, its text when it is a str, its     *)
(* number when it is an int and its length when it is a list.              *)

Val(t, s, n) == [t |-> t, s |-> s, n |-> n]
Absent == Val("absent", "", 0)      \* the key is not in the request
JNull == Val("null", "", 0)
JStr(s) == Val("str", s, 0)
JInt(n) == Val("int", "", n)
JList(n) == Val("list", "", n)

\* bool(v)
Truthy(v) ==
    \/ v.t = "str" /\ v.s # ""
    \/ v.t = "int" /\ v.n # 0
    \/ v.t = "list" /\ v.n > 0

\* request.get(key) and request.get(key, default)
Get(v, default) == IF v.t = "absent" THEN default ELSE v

\* A line array of a file entry: a list of integers, or absent, or a value
\* of another type (null, an int, the str "12").
Lines(t, v) == [t |-> t, v |-> v]
NoLines == Lines("absent", <<>>)
LineList(v) == Lines("list", v)

\* len(x) of a line array that has a length
LinesLen(x) ==
    CASE x.t = "list" -> Len(x.v)
      [] x.t = "str" -> 2
      [] OTHER -> 0

\* a line array that has no length and cannot be iterated
Unsized(x) == x.t \in {"int", "null"}

\* The missing_branches mapping of a file entry: absent, or a dict given as
\* its entries in document order, each key a str given as its characters
\* and each value a list of target lines or a value of another type.
Branches(t, entries) == [t |-> t, entries |-> entries]
BranchEntry(key, targets) == [key |-> key, targets |-> targets]

\* a file entry's value with the four keys the parser reads
FileRecord(executed_lines, missing_lines, excluded_lines, missing_branches) ==
    [t |-> "dict", executed_lines |-> executed_lines, missing_lines |-> missing_lines,
     excluded_lines |-> excluded_lines, missing_branches |-> missing_branches]

\* a file entry's value with the two line arrays the tool reads
FileData(executed_lines, missing_lines) ==
    FileRecord(executed_lines, missing_lines, NoLines, Branches("absent", <<>>))

FileEntry(path, data) == [path |-> path, data |-> data]

-----------------------------------------------------------------------------
(* The files the pipeline may open, and what open() and read() give.       *)

PathValidator == Path(<<"src">>, "validator")
PathUtils == Path(<<"utils">>, "validator")
PathParser == Path(<<"data">>, "parser")
PathGone == Path(<<>>, "gone")
PathSecret == Path(<<>>, "secret")
PathPkg == [dirs |-> <<>>, stem |-> "pkg", suffix |-> ""]

RepoRoot == <<"repo">>

\* open(actual_path).read(): the source read, or the exception raised
FileSystem(actual_path) ==
    CASE actual_path = PathValidator -> [status |-> "ok", source |-> "SrcRaise"]
      [] actual_path = PathUtils -> [status |-> "ok", source |-> "SrcIfBranch"]
      [] actual_path = PathParser -> [status |-> "ok", source |-> "SrcBroken"]
      [] actual_path = JoinPath(RepoRoot, PathGone) -> [status |-> "ok", source |-> "SrcLoop"]
      [] actual_path = PathSecret -> [status |-> "PermissionError", source |-> NONE]
      [] actual_path = JoinPath(RepoRoot, PathSecret) -> [status |-> "PermissionError", source |-> NONE]
      [] actual_path = PathPkg -> [status |-> "IsADirectoryError", source |-> NONE]
      [] actual_path = JoinPath(RepoRoot, PathPkg) -> [status |-> "IsADirectoryError", source |-> NONE]
      [] OTHER -> [status |-> "FileNotFoundError", source |-> NONE]

-----------------------------------------------------------------------------
(* tool.py                                                                 *)

PRIORITY_SCORE == [critical |-> 3, high |-> 2, medium |-> 1, low |-> 0]
PRIORITY_ORDER == <<"critical", "high", "medium", "low">>

\* PRIORITY_SCORE.get(key, 0) for a str key
ScoreOf(name) == IF name \in DOMAIN PRIORITY_SCORE THEN PRIORITY_SCORE[name] ELSE 0

\* PRIORITY_SCORE.get(v, 0) for a hashable request value
ScoreOfVal(v) == IF v.t = "str" THEN ScoreOf(v.s) ELSE 0

Raised(exc, message) == [ok |-> FALSE, exc |-> exc, message |-> message]

\* what the artifact resolver of the host returns for an artifact id, and
\* what the file at a locator holds: a coverage document, text that is not
\* JSON, a JSON array, or nothing
StoredDocument ==
    [t |-> "dict", has_files |-> TRUE, has_meta |-> TRUE,
     files |-> [t |-> "dict", entries |->
        <<FileEntry(PathValidator, FileData(LineList(<<1, 2, 4>>), LineList(<<3>>))),
          FileEntry(PathGone, FileData(LineList(<<1>>), LineList(<<2>>)))>>]]

ArtifactStore(artifact_id) ==
    CASE artifact_id = "cov-1" -> [status |-> "ok", data |-> StoredDocument]
      [] artifact_id = "cov-junk" -> [status |-> "JSONDecodeError", data |-> NONE]
      [] artifact_id = "cov-array" -> [status |-> "ok", data |-> [t |-> "list"]]
      [] OTHER -> [status |-> "KeyError", data |-> NONE]

LocatorFile(locator) ==
    CASE locator = "coverage.json" -> [status |-> "ok", data |-> StoredDocument]
      [] locator = "junk.json" -> [status |-> "JSONDecodeError", data |-> NONE]
      [] OTHER -> [status |-> "FileNotFoundError", data |-> NONE]

\* _load_coverage
load_coverage(coverage, has_resolver) ==
    IF coverage.t # "dict" THEN Raised("ValueError", "coverage must be an object")
    ELSE IF coverage.artifact_id # ""
    THEN IF has_resolver
         THEN LET raw == ArtifactStore(coverage.artifact_id)
              IN IF raw.status = "ok" THEN [ok |-> TRUE, data |-> raw.data]
                 ELSE Raised(raw.status, coverage.artifact_id)
         ELSE IF coverage.locator = ""
         THEN Raised("ValueError",
                     "artifact reference requires either artifact_resolver or locator")
         ELSE LET f == LocatorFile(coverage.locator)
              IN IF f.status = "ok" THEN [ok |-> TRUE, data |-> f.data]
                 ELSE Raised(f.status, coverage.locator)
    ELSE IF ~coverage.has_files /\ ~coverage.has_meta
    THEN Raised("ValueError",
                "coverage data must contain 'files' key (coverage.json format)")
    ELSE [ok |-> TRUE,
          data |-> [t |-> "dict", has_files |-> coverage.has_files,
                    has_meta |-> coverage.has_meta, files |-> coverage.files]]

\* the message handle() builds from an exception of _load_coverage
LoadErrorMessage(e) ==
    CASE e.exc = "FileNotFoundError" -> "Coverage file not found: " \o e.message
      [] e.exc = "JSONDecodeError" -> "Invalid JSON in coverage data: " \o e.message
      [] e.exc = "ValueError" -> e.message
      [] OTHER -> "Failed to load coverage: " \o e.message

\* the warning for a source file that cannot be read
ReadWarning(status, actual_path) ==
    CASE status = "FileNotFoundError" -> "Source file not found: " \o PathStr(actual_path)
      [] status = "PermissionError" -> "Permission denied reading: " \o PathStr(actual_path)
      [] OTHER -> "Error reading " \o PathStr(actual_path) \o ": [Errno 21] Is a directory: '"
                  \o PathStr(actual_path) \o "'"

\* variant of AnalyzeEntry: the source file is opened at the path of the
\* report, repo_root or not
AnalyzeEntryUnrooted(entry, repo_root, acc) ==
    LET file_data == entry.data
        lines == file_data.missing_lines
        missing_lines == IF lines.t = "list" THEN Range(lines.v) ELSE {}
        actual_path == entry.path
        file == FileSystem(actual_path)
    IN IF file_data.t # "dict"
       THEN Raised("AttributeError", "'list' object has no attribute 'get'")
       ELSE IF lines.t \in {"int", "null"}
       THEN Raised("TypeError", "object is not iterable")
       ELSE IF lines.t = "absent" \/ (lines.t = "list" /\ missing_lines = {})
       THEN acc
       ELSE IF file.status # "ok"
       THEN [acc EXCEPT !.warnings = Append(@, ReadWarning(file.status, actual_path)),
                        !.opened = Append(@, actual_path)]
       ELSE IF lines.t = "str"
       THEN IF SourceText(file.source).parses
            THEN [acc EXCEPT !.opened = Append(@, actual_path)]
            ELSE Raised("TypeError", "can only concatenate str (not 'int') to str")
       ELSE [acc EXCEPT
                !.suggestions = @ \o generate(AnalyzeFile(file.source, missing_lines,
                                                          entry.path),
                                              entry.path),
                !.opened = Append(@, actual_path)]

\* one iteration of the loop over files_data.items(), acc holding
\* all_suggestions, warnings and the files opened so far: acc with what
\* the iteration adds, or the exception it raises
AnalyzeEntry(entry, repo_root, acc) ==
    LET file_data == entry.data
        lines == file_data.missing_lines
        missing_lines == IF lines.t = "list" THEN Range(lines.v) ELSE {}
        actual_path == IF repo_root # <<>> THEN JoinPath(repo_root, entry.path)
                       ELSE entry.path
        file == FileSystem(actual_path)
    IN IF file_data.t # "dict"
       THEN Raised("AttributeError", "'list' object has no attribute 'get'")
       ELSE IF lines.t \in {"int", "null"}
       THEN Raised("TypeError", "object is not iterable")
       ELSE IF lines.t = "absent" \/ (lines.t = "list" /\ missing_lines = {})
       THEN acc
       ELSE IF file.status # "ok"
       THEN [acc EXCEPT !.warnings = Append(@, ReadWarning(file.status, actual_path)),
                        !.opened = Append(@, actual_path)]
       ELSE IF lines.t = "str"
       THEN IF SourceText(file.source).parses
            THEN [acc EXCEPT !.opened = Append(@, actual_path)]
            ELSE Raised("TypeError", "can only concatenate str (not 'int') to str")
       ELSE [acc EXCEPT
                !.suggestions = @ \o generate(AnalyzeFile(file.source, missing_lines,
                                                          entry.path),
                                              entry.path),
                !.opened = Append(@, actual_path)]

RECURSIVE AnalyzeEntriesUntilWarning(_, _, _)
\* variant of AnalyzeEntries: the loop ends at the first file that cannot
\* be read
AnalyzeEntriesUntilWarning(entries, repo_root, acc) ==
    IF entries = <<>> \/ ~acc.ok THEN acc
    ELSE IF acc.warnings # <<>> THEN acc
    ELSE AnalyzeEntriesUntilWarning(Tail(entries), repo_root,
                                    AnalyzeEntry(Head(entries), repo_root, acc))

RECURSIVE AnalyzeEntries(_, _, _)
\* the loop of _analyze_coverage_data over the entries left, which an
\* exception ends
AnalyzeEntries(entries, repo_root, acc) ==
    IF entries = <<>> \/ ~acc.ok THEN acc
    ELSE AnalyzeEntries(Tail(entries), repo_root, AnalyzeEntry(Head(entries), repo_root, acc))

\* coverage_data.get("files", {})
FilesOf(coverage_data) ==
    IF coverage_data.has_files THEN coverage_data.files
    ELSE [t |-> "dict", entries |-> <<>>]

\* _analyze_coverage_data
analyze_coverage_data(coverage_data, repo_root) ==
    IF coverage_data.t # "dict"
    THEN Raised("AttributeError", "'list' object has no attribute 'get'")
    ELSE IF FilesOf(coverage_data).t # "dict"
    THEN Raised("AttributeError", "'list' object has no attribute 'items'")
    ELSE AnalyzeEntries(FilesOf(coverage_data).entries, repo_root,
            [ok |-> TRUE, suggestions |-> <<>>, warnings |-> <<>>, opened |-> <<>>])


-----------------------------------------------------------------------------
(* coverage_gaps.py: CoverageParser and find_coverage_gaps, from the       *)
(* document json.load returns.                                             *)

\* set(x) of a line array: the set of its values; of the str "12" the
\* set of its characters, written as their code points
LineSet(x) ==
    CASE x.t = "list" -> [t |-> "ints", v |-> Range(x.v)]
      [] x.t = "str" -> [t |-> "chars", v |-> {49, 50}]
      [] OTHER -> [t |-> "ints", v |-> {}]

\* int(s) of a str given as its characters: blanks around are dropped,
\* then an optional sign, then decimal digits with single underscores
\* between them; anything else raises ValueError
int(s) ==
    LET RECURSIVE DecimalValue(_, _)
        DecimalValue(digits, acc) ==
            IF digits = <<>> THEN acc
            ELSE DecimalValue(Tail(digits),
                              10 * acc + (CHOOSE d \in 0..9 :
                                             <<"0", "1", "2", "3", "4", "5", "6", "7",
                                               "8", "9">>[d + 1] = Head(digits)))
        solid == {i \in DOMAIN s : s[i] # " "}
        lo == CHOOSE i \in solid : \A k \in solid : i <= k
        hi == CHOOSE i \in solid : \A k \in solid : k <= i
        t == SubSeq(s, lo, hi)
        signed == t[1] \in {"+", "-"}
        body == IF signed THEN Tail(t) ELSE t
        IsDigit(c) == c \in {"0", "1", "2", "3", "4", "5", "6", "7", "8", "9"}
        wellformed ==
            /\ body # <<>>
            /\ \A i \in DOMAIN body : IsDigit(body[i]) \/ body[i] = "_"
            /\ IsDigit(body[1]) /\ IsDigit(body[Len(body)])
            /\ \A i \in 1..(Len(body) - 1) : ~(body[i] = "_" /\ body[i + 1] = "_")
        magnitude == DecimalValue(SelectSeq(body, IsDigit), 0)
    IN IF solid = {} THEN Raised("ValueError", "invalid literal for int()")
       ELSE IF ~wellformed THEN Raised("ValueError", "invalid literal for int()")
       ELSE [ok |-> TRUE, n |-> IF t[1] = "-" THEN 0 - magnitude ELSE magnitude]

\* variant of EdgesOf: the first entry that raises ends the loop over the
\* mapping
RECURSIVE EdgesUntilError(_, _)
EdgesUntilError(entries, missing_branches) ==
    IF entries = <<>> THEN missing_branches
    ELSE LET branch_data == Head(entries).targets
             from_line == int(Head(entries).key)
         IN IF ~from_line.ok \/ Unsized(branch_data) THEN missing_branches
            ELSE EdgesUntilError(
                     Tail(entries),
                     missing_branches \o [k \in DOMAIN branch_data.v |->
                                             <<from_line.n, branch_data.v[k]>>])

\* the loop over file_data.get("missing_branches", {}).items(): an entry
\* whose int(branch_key) raises ValueError, or whose branch_data cannot be
\* iterated (TypeError), appends nothing
RECURSIVE EdgesOf(_, _)
EdgesOf(entries, missing_branches) ==
    IF entries = <<>> THEN missing_branches
    ELSE LET branch_data == Head(entries).targets
             from_line == int(Head(entries).key)
         IN EdgesOf(Tail(entries),
                    IF ~from_line.ok \/ Unsized(branch_data) THEN missing_branches
                    ELSE missing_branches \o [k \in DOMAIN branch_data.v |->
                                                 <<from_line.n, branch_data.v[k]>>])

\* variant of FileCoverage: the two line sets change places
FileCoverageSwapped(path, covered_lines, missing_lines, excluded_lines, missing_branches) ==
    [path |-> path, covered_lines |-> missing_lines, missing_lines |-> covered_lines,
     excluded_lines |-> excluded_lines, missing_branches |-> missing_branches]

\* FileCoverage: the path, the line sets and the branch edges of one file
FileCoverage(path, covered_lines, missing_lines, excluded_lines, missing_branches) ==
    [path |-> path, covered_lines |-> covered_lines, missing_lines |-> missing_lines,
     excluded_lines |-> excluded_lines, missing_branches |-> missing_branches]

\* CoverageReport
CoverageReport(files, total_covered, total_missing) ==
    [ok |-> TRUE, files |-> files, total_covered |-> total_covered,
     total_missing |-> total_missing]

\* one iteration of the loop of CoverageParser.parse: the report with the
\* file added, or the exception raised
ParseFile(entry, report) ==
    LET file_data == entry.data
    IN IF file_data.t # "dict"
       THEN Raised("AttributeError", "'list' object has no attribute 'get'")
       ELSE IF \/ Unsized(file_data.executed_lines) \/ Unsized(file_data.missing_lines)
               \/ Unsized(file_data.excluded_lines)
       THEN Raised("TypeError", "object is not iterable")
       ELSE IF file_data.missing_branches.t \notin {"absent", "dict"}
       THEN Raised("AttributeError", "'list' object has no attribute 'items'")
       ELSE CoverageReport(
                Append(report.files,
                       FileCoverage(entry.path, LineSet(file_data.executed_lines),
                                    LineSet(file_data.missing_lines),
                                    LineSet(file_data.excluded_lines),
                                    EdgesOf(file_data.missing_branches.entries, <<>>))),
                report.total_covered + Cardinality(LineSet(file_data.executed_lines).v),
                report.total_missing + Cardinality(LineSet(file_data.missing_lines).v))

\* a float quotient n / d * 100 as the fraction in lowest terms
Percent(n, d) ==
    LET g == CHOOSE g \in 1..d :
                 /\ (100 * n) % g = 0 /\ d % g = 0
                 /\ \A h \in 1..d : ((100 * n) % h = 0 /\ d % h = 0) => h <= g
    IN [num |-> (100 * n) \div g, den |-> d \div g]

\* variant of file_coverage_percent: zero lines give 0.0
file_coverage_percent_zero(file_cov) ==
    LET total == Cardinality(file_cov.covered_lines.v)
                 + Cardinality(file_cov.missing_lines.v)
    IN IF total = 0 THEN [num |-> 0, den |-> 1]
       ELSE Percent(Cardinality(file_cov.covered_lines.v), total)

\* FileCoverage.coverage_percent
file_coverage_percent(file_cov) ==
    LET total == Cardinality(file_cov.covered_lines.v)
                 + Cardinality(file_cov.missing_lines.v)
    IN IF total = 0 THEN [num |-> 100, den |-> 1]
       ELSE Percent(Cardinality(file_cov.covered_lines.v), total)

\* CoverageReport.coverage_percent
report_coverage_percent(report) ==
    LET total == report.total_covered + report.total_missing
    IN IF total = 0 THEN [num |-> 100, den |-> 1]
       ELSE Percent(report.total_covered, total)

RECURSIVE ParseFiles(_, _)
ParseFiles(entries, report) ==
    IF entries = <<>> \/ ~report.ok THEN report
    ELSE ParseFiles(Tail(entries), ParseFile(Head(entries), report))

\* CoverageParser.parse
parse(data) ==
    IF data.t # "dict"
    THEN Raised("AttributeError", "'list' object has no attribute 'get'")
    ELSE IF FilesOf(data).t # "dict"
    THEN Raised("AttributeError", "'list' object has no attribute 'items'")
    ELSE ParseFiles(FilesOf(data).entries, CoverageReport(<<>>, 0, 0))

\* variant of GapsOfFile: the suggestions gathered so far are sorted
\* again after every file
GapsOfFileSorted(file_cov, source_root, acc) ==
    LET actual_path == IF source_root # <<>> THEN JoinPath(source_root, file_cov.path)
                       ELSE file_cov.path
        file == FileSystem(actual_path)
    IN IF file_cov.missing_lines.v = {}
       THEN acc
       ELSE IF file.status # "ok"
       THEN [acc EXCEPT !.warnings = Append(@, ReadWarning(file.status, actual_path)),
                        !.opened = Append(@, actual_path)]
       ELSE IF file_cov.missing_lines.t = "chars"
       THEN IF SourceText(file.source).parses
            THEN [acc EXCEPT !.opened = Append(@, actual_path)]
            ELSE Raised("TypeError", "can only concatenate str (not 'int') to str")
       ELSE [acc EXCEPT
                !.suggestions =
                    SortSuggestions(@ \o generate(AnalyzeFile(file.source,
                                                              file_cov.missing_lines.v,
                                                              file_cov.path),
                                                  file_cov.path)),
                !.opened = Append(@, actual_path)]

\* one iteration of the loop of find_coverage_gaps, acc holding
\* all_suggestions, warnings and the files opened so far
GapsOfFile(file_cov, source_root, acc) ==
    LET actual_path == IF source_root # <<>> THEN JoinPath(source_root, file_cov.path)
                       ELSE file_cov.path
        file == FileSystem(actual_path)
    IN IF file_cov.missing_lines.v = {}
       THEN acc
       ELSE IF file.status # "ok"
       THEN [acc EXCEPT !.warnings = Append(@, ReadWarning(file.status, actual_path)),
                        !.opened = Append(@, actual_path)]
       ELSE IF file_cov.missing_lines.t = "chars"
       THEN IF SourceText(file.source).parses
            THEN [acc EXCEPT !.opened = Append(@, actual_path)]
            ELSE Raised("TypeError", "can only concatenate str (not 'int') to str")
       ELSE [acc EXCEPT
                !.suggestions = @ \o generate(AnalyzeFile(file.source,
                                                          file_cov.missing_lines.v,
                                                          file_cov.path),
                                              file_cov.path),
                !.opened = Append(@, actual_path)]

RECURSIVE GapsOfFiles(_, _, _)
GapsOfFiles(files, source_root, acc) ==
    IF files = <<>> \/ ~acc.ok THEN acc
    ELSE GapsOfFiles(Tail(files), source_root, GapsOfFile(Head(files), source_root, acc))

\* What a call of find_coverage_gaps() gives: kind "returned" with the
\* tuple (suggestions, warnings), or kind "raised" with the exception;
\* opened records the source files opened, in order.
GapsOutcome(kind, exc, suggestions, warnings, opened) ==
    [kind |-> kind, exc |-> exc, suggestions |-> suggestions, warnings |-> warnings,
     opened |-> opened]

\* the loop of find_coverage_gaps over report.files, or the exception
\* parser.parse raised
gaps_of_report(report, source_root) ==
    IF ~report.ok THEN report
    ELSE GapsOfFiles(report.files, source_root,
                     [ok |-> TRUE, suggestions |-> <<>>, warnings |-> <<>>,
                      opened |-> <<>>])

\* the return of find_coverage_gaps, or the exception that leaves it
ReturnOrRaise(r) ==
    IF r.ok THEN GapsOutcome("returned", "", r.suggestions, r.warnings, r.opened)
    ELSE GapsOutcome("raised", r.exc, <<>>, <<>>, <<>>)

\* find_coverage_gaps(coverage_json, source_root), data being the document
\* in the file coverage_json
find_coverage_gaps(data, source_root) ==
    ReturnOrRaise(gaps_of_report(parse(data), source_root))

\* the document of a report file that holds an inline coverage payload
ReportFile(coverage) ==
    [t |-> "dict", has_files |-> coverage.has_files, has_meta |-> coverage.has_meta,
     files |-> coverage.files]
RECURSIVE KeepAbove(_, _)
\* variant of KeepAtLeast: the comparison with min_score is strict
KeepAbove(suggestions, min_score) ==
    IF suggestions = <<>> THEN <<>>
    ELSE (IF ScoreOf(Head(suggestions).priority) > min_score
          THEN <<Head(suggestions)>> ELSE <<>>)
         \o KeepAbove(Tail(suggestions), min_score)

RECURSIVE KeepAtLeast(_, _)
\* [s for s in suggestions if PRIORITY_SCORE.get(s.priority, 0) >= min_score]
KeepAtLeast(suggestions, min_score) ==
    IF suggestions = <<>> THEN <<>>
    ELSE (IF ScoreOf(Head(suggestions).priority) >= min_score
          THEN <<Head(suggestions)>> ELSE <<>>)
         \o KeepAtLeast(Tail(suggestions), min_score)

\* step 3 of handle(): the filter by priority, for a hashable priority_filter
FilterByPriority(suggestions, priority_filter) ==
    IF Truthy(priority_filter)
    THEN KeepAtLeast(suggestions, ScoreOfVal(priority_filter))
    ELSE suggestions

\* step 4 of handle(): the count by priority
CountByPriority(suggestions) ==
    [p \in Range(PRIORITY_ORDER) |->
        Cardinality({i \in DOMAIN suggestions : suggestions[i].priority = p})]

\* variant of compute_exit_code: the comparison with the threshold is
\* strict
compute_exit_code_strict(suggestions, fail_on) ==
    IF fail_on.t = "str" /\ fail_on.s = "none" THEN 0
    ELSE IF fail_on.t = "str" /\ fail_on.s = "any" /\ suggestions # <<>> THEN 2
    ELSE IF \E i \in DOMAIN suggestions :
                ScoreOf(suggestions[i].priority) > ScoreOfVal(fail_on)
    THEN 2
    ELSE 0

\* _compute_exit_code, for a hashable fail_on
compute_exit_code(suggestions, fail_on) ==
    IF fail_on.t = "str" /\ fail_on.s = "none" THEN 0
    ELSE IF fail_on.t = "str" /\ fail_on.s = "any" /\ suggestions # <<>> THEN 2
    ELSE IF \E i \in DOMAIN suggestions :
                ScoreOf(suggestions[i].priority) >= ScoreOfVal(fail_on)
    THEN 2
    ELSE 0

\* variant of ApplyLimit: suggestions[:limit] for every limit that is
\* not zero, a negative limit dropping items from the end
ApplyLimitNegative(suggestions, limit) ==
    IF Truthy(limit) /\ limit.n > 0
    THEN SubSeq(suggestions, 1, IF limit.n < Len(suggestions) THEN limit.n
                                ELSE Len(suggestions))
    ELSE IF Truthy(limit) /\ limit.t = "int"
    THEN SubSeq(suggestions, 1, IF Len(suggestions) + limit.n > 0
                                THEN Len(suggestions) + limit.n ELSE 0)
    ELSE suggestions

\* step 6 of handle(): suggestions[:limit]
ApplyLimit(suggestions, limit) ==
    IF Truthy(limit) /\ limit.n > 0
    THEN SubSeq(suggestions, 1, IF limit.n < Len(suggestions) THEN limit.n
                                ELSE Len(suggestions))
    ELSE suggestions

RECURSIVE SumLines(_, _)
\* the sum over the files of len(file_data.get(field, []))
SumLines(entries, executed) ==
    IF entries = <<>> THEN 0
    ELSE LinesLen(IF executed THEN Head(entries).data.executed_lines
                  ELSE Head(entries).data.missing_lines)
         + SumLines(Tail(entries), executed)

\* round(total_covered / total_lines * 100, 2) in hundredths of a percent
\* (no quotient of the model lies halfway between two hundredths)
PercentHundredths(total_covered, total_lines) ==
    IF total_lines > 0 THEN (2 * 10000 * total_covered + total_lines) \div (2 * total_lines)
    ELSE 10000

\* _build_result, for line arrays that have a length
build_result(coverage_data, suggestions, total_suggestions, by_priority) ==
    LET entries == FilesOf(coverage_data).entries
        total_covered == SumLines(entries, TRUE)
        total_missing == SumLines(entries, FALSE)
        files_with_gaps ==
            Cardinality({i \in DOMAIN entries : LinesLen(entries[i].data.missing_lines) > 0})
    IN [coverage_percent |-> PercentHundredths(total_covered, total_covered + total_missing),
        files_analyzed |-> Len(entries),
        files_with_gaps |-> files_with_gaps,
        total_suggestions |-> total_suggestions,
        suggestions |-> suggestions,
        by_priority |-> by_priority]

\* _format_text_output: the test names it lists and how many more it counts
format_text_output(result, suggestions) ==
    [top |-> [i \in 1..(IF Len(suggestions) < 10 THEN Len(suggestions) ELSE 10) |->
                 suggestions[i].test_name],
     more |-> IF Len(suggestions) > 10 THEN Len(suggestions) - 10 ELSE 0,
     missing_tests |-> result.total_suggestions]

NoText == [top |-> <<>>, more |-> 0, missing_tests |-> 0]

\* What a call of handle() gives: kind "returned" with the response dict
\* (exit_code, result, warnings, and text when has_text), or kind "raised"
\* with the exception that escapes.  filtered (the suggestion list after
\* step 3) and opened (the source files opened, in order) are recorded
\* beside it for the properties that speak of them.
Outcome(kind, exc, exit_code, result, warnings, has_text, text, filtered, opened) ==
    [kind |-> kind, exc |-> exc, exit_code |-> exit_code, result |-> result,
     warnings |-> warnings, has_text |-> has_text, text |-> text,
     filtered |-> filtered, opened |-> opened]

EmptyResult ==
    [coverage_percent |-> 0, files_analyzed |-> 0, files_with_gaps |-> 0,
     total_suggestions |-> 0, suggestions |-> <<>>,
     by_priority |-> [p \in Range(PRIORITY_ORDER) |-> 0]]

\* _error_response
error_response(message) ==
    Outcome("returned", "", 1, EmptyResult, <<message>>, FALSE, NoText, <<>>, <<>>)

\* an exception leaves handle()
Escapes(exc, opened) ==
    Outcome("raised", exc, 0, EmptyResult, <<>>, FALSE, NoText, <<>>, opened)

RECURSIVE InsertWarning(_, _)
InsertWarning(w, sorted) ==
    IF sorted = <<>> THEN <<w>>
    ELSE IF StrLess(w, Head(sorted)) THEN <<w>> \o sorted
    ELSE <<Head(sorted)>> \o InsertWarning(w, Tail(sorted))

\* variant of SortedWarnings: the warnings in the order the files gave them
UnsortedWarnings(warnings) == warnings

RECURSIVE SortedWarnings(_)
\* sorted(warnings)
SortedWarnings(warnings) ==
    IF warnings = <<>> THEN <<>>
    ELSE InsertWarning(warnings[Len(warnings)],
                       SortedWarnings(SubSeq(warnings, 1, Len(warnings) - 1)))

\* variant of handle_filtered: the count and the exit code are taken
\* after the limit is applied
handle_filtered_limit_first(req, coverage_data, suggestions, warnings, opened) ==
    LET limit == Get(req.limit, JNull)
        limited == ApplyLimit(suggestions, limit)
        total_suggestions == Len(limited)
        by_priority == CountByPriority(limited)
        fail_on == Get(req.fail_on, JStr("none"))
        exit_code == compute_exit_code(limited, fail_on)
        entries == FilesOf(coverage_data).entries
        result == build_result(coverage_data, limited, total_suggestions, by_priority)
        has_text == req.format = JStr("text")
    IN IF fail_on.t = "list"
       THEN Escapes("TypeError", opened)
       ELSE IF Truthy(limit) /\ limit.t # "int"
       THEN Escapes("TypeError", opened)
       ELSE IF \E i \in DOMAIN entries :
                   \/ Unsized(entries[i].data.executed_lines)
                   \/ Unsized(entries[i].data.missing_lines)
       THEN Escapes("TypeError", opened)
       ELSE Outcome("returned", "", exit_code, result, SortedWarnings(warnings),
                    has_text,
                    IF has_text THEN format_text_output(result, limited) ELSE NoText,
                    suggestions, opened)

\* steps 4 to 9 of handle(), suggestions being the list step 3 leaves
handle_filtered(req, coverage_data, suggestions, warnings, opened) ==
    LET total_suggestions == Len(suggestions)
        by_priority == CountByPriority(suggestions)
        fail_on == Get(req.fail_on, JStr("none"))
        exit_code == compute_exit_code(suggestions, fail_on)
        limit == Get(req.limit, JNull)
        limited == ApplyLimit(suggestions, limit)
        entries == FilesOf(coverage_data).entries
        result == build_result(coverage_data, limited, total_suggestions, by_priority)
        has_text == req.format = JStr("text")
    IN IF fail_on.t = "list"
       THEN Escapes("TypeError", opened)
       ELSE IF Truthy(limit) /\ limit.t # "int"
       THEN Escapes("TypeError", opened)
       ELSE IF \E i \in DOMAIN entries :
                   \/ Unsized(entries[i].data.executed_lines)
                   \/ Unsized(entries[i].data.missing_lines)
       THEN Escapes("TypeError", opened)
       ELSE Outcome("returned", "", exit_code, result, SortedWarnings(warnings),
                    has_text,
                    IF has_text THEN format_text_output(result, limited) ELSE NoText,
                    suggestions, opened)

\* handle() from the return of _analyze_coverage_data on: the except
\* clause of step 2, then step 3
handle_analysed(req, coverage_data, analysed) ==
    LET priority_filter == Get(req.priority_filter, JNull)
    IN IF ~analysed.ok THEN error_response("Analysis failed: " \o analysed.message)
       ELSE IF Truthy(priority_filter) /\ priority_filter.t = "list"
       THEN Escapes("TypeError", analysed.opened)
       ELSE handle_filtered(req, coverage_data,
                            FilterByPriority(analysed.suggestions, priority_filter),
                            analysed.warnings, analysed.opened)

\* step 1 of handle(): request["coverage"], loaded
LoadRequest(req) ==
    IF req.coverage.t = "absent" THEN Raised("KeyError", "'coverage'")
    ELSE load_coverage(req.coverage, req.has_resolver)

\* handle(request, artifact_resolver=...)
handle(req) ==
    LET loaded == LoadRequest(req)
    IN IF ~loaded.ok THEN error_response(LoadErrorMessage(loaded))
       ELSE handle_analysed(req, loaded.data,
                            analyze_coverage_data(loaded.data, req.repo_root))
-----------------------------------------------------------------------------
(* SpecAnalyze: one analyzer object, from construction to the return of    *)
(* analyze().                                                              *)

TestPath == Path(<<>>, "test")

IdleGen == [phase |-> "idle", blocks |-> <<>>, file_path |-> TestPath, suggestions |-> <<>>]
IdleAn == [GapAnalyzer("SrcBroken", {}) EXCEPT !.phase = "idle"]

InitAnalyze ==
    /\ an \in {GapAnalyzer(s, m) : s \in SourceNames, m \in SUBSET (1..MaxLine)}
    /\ gen = IdleGen
    /\ request = NONE /\ response = NONE /\ prev = NONE /\ gaps = NONE

Analyze ==
    /\ an.phase = "new"
    /\ an' = Returned(analyze(an, TestPath))
    /\ UNCHANGED <<gen, request, response, prev, gaps>>

Visit ==
    /\ an.phase = "running"
    /\ Head(an.stack).op = "visit"
    /\ an' = AnalyzerStep(an)
    /\ UNCHANGED <<gen, request, response, prev, gaps>>

AnalyzeNode ==
    /\ an.phase = "running"
    /\ Head(an.stack).op = "analyze"
    /\ an' = AnalyzerStep(an)
    /\ UNCHANGED <<gen, request, response, prev, gaps>>

Restore ==
    /\ an.phase = "running"
    /\ Head(an.stack).op \in {"restore_class", "restore_function"}
    /\ an' = AnalyzerStep(an)
    /\ UNCHANGED <<gen, request, response, prev, gaps>>

\* variant of Generate: generate() reverses the list it is handed, which is
\* the analyzer's own list
GenerateReversing ==
    /\ an.phase = "returned"
    /\ gen.phase = "idle"
    /\ an' = [an EXCEPT !.uncovered_blocks =
                  [i \in DOMAIN @ |-> @[Len(@) + 1 - i]]]
    /\ gen' = [phase |-> "returned", blocks |-> an.uncovered_blocks,
               file_path |-> an.current_file,
               suggestions |-> generate(an.uncovered_blocks, an.current_file)]
    /\ UNCHANGED <<request, response, prev, gaps>>

\* the caller passes the blocks analyze() returned to generate()
Generate ==
    /\ an.phase = "returned"
    /\ gen.phase = "idle"
    /\ gen' = [phase |-> "returned", blocks |-> an.uncovered_blocks,
               file_path |-> an.current_file,
               suggestions |-> generate(an.uncovered_blocks, an.current_file)]
    /\ UNCHANGED <<an, request, response, prev, gaps>>

NextAnalyze == Analyze \/ Visit \/ AnalyzeNode \/ Restore \/ Generate

SpecAnalyze == InitAnalyze /\ [][NextAnalyze]_vars

-----------------------------------------------------------------------------
(* SpecGen: one call generate(blocks, file_path).  The blocks are any the  *)
(* caller may build: every block type, with and without an enclosing       *)
(* function.                                                               *)

BLOCK_TYPES ==
    {"if_true_branch", "if_false_branch", "exception_handler",
     "return_statement", "raise_statement", "for_loop", "while_loop",
     "code_block", "unknown"}

\* a condition text of the kind the analyzer writes for the block type
SampleCondition(block_type) ==
    CASE block_type = "if_true_branch" -> "when x is True"
      [] block_type = "if_false_branch" -> "when x is False"
      [] block_type = "exception_handler" -> "when ValueError is raised"
      [] block_type = "return_statement" -> "return x"
      [] block_type = "raise_statement" -> "raise ValueError"
      [] OTHER -> NONE

\* single-line blocks end where they start, the others one line later
SampleEnd(block_type, start_line) ==
    IF block_type \in {"return_statement", "raise_statement"}
    THEN start_line ELSE start_line + 1

StartLines == {1, 2}

GenBlocks ==
    {UncoveredBlock(Path(<<"utils">>, "validator"), s, SampleEnd(t, s), f, NONE, t,
                    SampleCondition(t)) :
        t \in BLOCK_TYPES, f \in {NONE, "foo"}, s \in StartLines}

BlockLists == UNION {[1..n -> GenBlocks] : n \in 0..MaxBlocks}

InitGen ==
    /\ gen \in {[phase |-> "called", blocks |-> bs,
                 file_path |-> Path(<<"utils">>, "validator"),
                 suggestions |-> <<>>] : bs \in BlockLists}
    /\ an = IdleAn
    /\ request = NONE /\ response = NONE /\ prev = NONE /\ gaps = NONE

\* one iteration of the loop over blocks
CreateSuggestion ==
    /\ gen.phase = "called"
    /\ Len(gen.suggestions) < Len(gen.blocks)
    /\ gen' = [gen EXCEPT !.suggestions =
                  Append(@, create_suggestion(gen.blocks[Len(gen.suggestions) + 1],
                                              gen.file_path))]
    /\ UNCHANGED <<an, request, response, prev, gaps>>

\* the sort and the return
SortAndReturn ==
    /\ gen.phase = "called"
    /\ Len(gen.suggestions) = Len(gen.blocks)
    /\ gen' = [gen EXCEPT !.suggestions = SortSuggestions(@), !.phase = "returned"]
    /\ UNCHANGED <<an, request, response, prev, gaps>>

NextGen == CreateSuggestion \/ SortAndReturn

SpecGen == InitGen /\ [][NextGen]_vars

-----------------------------------------------------------------------------
(* SpecTestFile: _suggest_test_file called for two source paths, one after *)
(* the other.                                                              *)

\* the two source paths: one to three segments, parents inside and
\* outside the list the code skips
InitTestFile ==
    /\ gen \in {[phase |-> "naming", paths |-> <<p, q>>, test_files |-> <<>>] :
                    p, q \in {Path(dirs, stem) :
                                  dirs \in {<<>>, <<"src">>, <<"lib">>, <<"app">>,
                                            <<"utils">>, <<"data">>, <<"src", "utils">>,
                                            <<"lib", "utils">>, <<"utils", "src">>,
                                            <<"data", "app">>},
                                  stem \in {"validator", "parser"}}}
    /\ an = IdleAn
    /\ request = NONE /\ response = NONE /\ prev = NONE /\ gaps = NONE

\* self._suggest_test_file(file_path) for the next path
SuggestTestFile ==
    /\ gen.phase = "naming"
    /\ Len(gen.test_files) < Len(gen.paths)
    /\ gen' = [gen EXCEPT !.test_files =
                  Append(@, suggest_test_file(gen.paths[Len(gen.test_files) + 1]))]
    /\ UNCHANGED <<an, request, response, prev, gaps>>

SpecTestFile == InitTestFile /\ [][SuggestTestFile]_vars
-----------------------------------------------------------------------------
(* Spec: a host calls handle() with a request, and may call again with     *)
(* only the limit changed; the command line may run find_coverage_gaps()   *)
(* on the same document.                                                   *)

Request(coverage, repo_root, priority_filter, fail_on, limit, format, has_resolver) ==
    [coverage |-> coverage, repo_root |-> repo_root,
     priority_filter |-> priority_filter, fail_on |-> fail_on, limit |-> limit,
     format |-> format, has_resolver |-> has_resolver]

Coverage(t, artifact_id, locator, has_files, has_meta, files) ==
    [t |-> t, artifact_id |-> artifact_id, locator |-> locator,
     has_files |-> has_files, has_meta |-> has_meta, files |-> files]

FilesDict(entries) == [t |-> "dict", entries |-> entries]

\* an inline coverage.json document with the given files
Inline(entries) == Coverage("dict", "", "", TRUE, FALSE, FilesDict(entries))

\* file entries of well-formed documents
Entries ==
    {FileEntry(PathValidator, FileData(LineList(<<1, 4>>), LineList(<<2, 3>>))),
     FileEntry(PathValidator, FileData(LineList(<<1, 2, 4>>), LineList(<<3>>))),
     FileEntry(PathUtils, FileData(LineList(<<1>>), LineList(<<2, 3, 4>>))),
     FileEntry(PathUtils, FileData(LineList(<<1, 2, 3, 4>>), LineList(<<>>))),
     FileEntry(PathParser, FileData(NoLines, LineList(<<1, 2, 4>>))),
     FileEntry(PathGone, FileData(LineList(<<1>>), LineList(<<2>>))),
     FileEntry(PathGone, FileData(LineList(<<1, 2>>), NoLines)),
     FileEntry(PathSecret, FileData(LineList(<<2>>), LineList(<<1>>))),
     FileEntry(PathPkg, FileData(NoLines, LineList(<<1>>)))}

\* the documents: at most MaxFiles entries, no path twice (a JSON object)
Documents ==
    UNION {{d \in [1..n -> Entries] :
               \A i, j \in 1..n : i # j => d[i].path # d[j].path} : n \in 0..MaxFiles}

LEVELS == {"critical", "high", "medium", "low"}

\* a request of the documented shape, files read relative to the
\* working directory
PlainRequest(d, priority_filter, fail_on, limit) ==
    Request(Inline(d), <<>>, priority_filter, fail_on, limit, Absent, FALSE)

\* a request of the documented shape with a repo_root
RootedRequest(d, fail_on, format) ==
    Request(Inline(d), RepoRoot, Absent, fail_on, Absent, format, FALSE)

BaseEntry == FileEntry(PathValidator, FileData(LineList(<<1, 4>>), LineList(<<2, 3>>)))
BaseCoverage == Inline(<<BaseEntry>>)

\* coverage payloads of other shapes
OddCoverages ==
    {Coverage("absent", "", "", FALSE, FALSE, FilesDict(<<>>)),
     Coverage("str", "", "", FALSE, FALSE, FilesDict(<<>>)),
     Coverage("list", "", "", FALSE, FALSE, FilesDict(<<>>)),
     Coverage("dict", "", "", FALSE, FALSE, FilesDict(<<>>)),
     Coverage("dict", "", "", FALSE, TRUE, FilesDict(<<>>)),
     Coverage("dict", "", "", TRUE, TRUE, FilesDict(<<BaseEntry>>)),
     Coverage("dict", "", "", TRUE, FALSE, [t |-> "list", entries |-> <<>>])}
    \cup
    {Coverage("dict", id, loc, FALSE, FALSE, FilesDict(<<>>)) :
        id \in {"cov-1", "cov-junk", "cov-array", "cov-unknown"},
        loc \in {"", "coverage.json", "junk.json", "missing.json"}}
    \cup
    {Inline(<<FileEntry(p, data)>>) :
        p \in {PathValidator, PathParser, PathGone},
        data \in {[t |-> "list", executed_lines |-> NoLines, missing_lines |-> NoLines],
                  FileData(LineList(<<1>>), Lines("int", <<>>)),
                  FileData(LineList(<<1>>), Lines("null", <<>>)),
                  FileData(LineList(<<1>>), Lines("str", <<>>)),
                  FileData(Lines("int", <<>>), LineList(<<3>>)),
                  FileData(Lines("str", <<>>), LineList(<<3>>)),
                  FileData(LineList(<<1, 1>>), LineList(<<3, 3>>))}}

\* requests that depart from the documented shape in one field
OddRequests ==
    {Request(c, <<>>, Absent, fo, Absent, Absent, r) :
        c \in OddCoverages, fo \in {Absent, JStr("any")}, r \in BOOLEAN}
    \cup
    {Request(BaseCoverage, <<>>, pf, JStr("any"), Absent, Absent, FALSE) :
        pf \in {JNull, JStr(""), JStr("urgent"), JInt(5), JInt(0), JList(1), JList(0)}}
    \cup
    {Request(BaseCoverage, <<>>, Absent, fo, Absent, Absent, FALSE) :
        fo \in {JNull, JStr("medium"), JStr("low"), JStr("all"), JInt(2), JList(1),
                JList(0)}}
    \cup
    {Request(BaseCoverage, <<>>, Absent, JStr("any"), lim, fmt, FALSE) :
        lim \in {JNull, JInt(0), JInt(-1), JInt(2), JStr("5"), JStr(""), JList(1), JList(0)},
        fmt \in {Absent, JStr("text"), JStr("json")}}

\* a second call changes the limit to one of 1..MaxLimit
MaxLimit == 2

NotCalled ==
    Outcome("pending", "", 0, EmptyResult, <<>>, FALSE, NoText, <<>>, <<>>)

NoPrev == [called |-> FALSE, limit |-> Absent, response |-> NotCalled]

NotRun == GapsOutcome("pending", "", <<>>, <<>>, <<>>)

Init ==
    /\ \/ \E d \in Documents,
              pf \in {Absent} \cup {JStr(p) : p \in LEVELS},
              fo \in {Absent, JStr("none"), JStr("any"), JStr("critical"),
                      JStr("high")} :
                request = PlainRequest(d, pf, fo, Absent)
       \/ \E d \in Documents, pf \in {Absent, JStr("high")},
              fo \in {Absent, JStr("any")} :
                request = PlainRequest(d, pf, fo, JInt(1))
       \/ \E d \in Documents, fo \in {Absent, JStr("any")},
              fmt \in {Absent, JStr("text")} :
                request = RootedRequest(d, fo, fmt)
       \/ request \in OddRequests
    /\ response = NotCalled
    /\ prev = NoPrev
    /\ gaps = NotRun
    /\ an = IdleAn
    /\ gen = IdleGen

\* the host calls handle(request)
Handle ==
    /\ response.kind = "pending"
    /\ response' = handle(request)
    /\ UNCHANGED <<request, prev, gaps, an, gen>>

\* the host calls again, with the same request but for limit = n
HandleWithLimit(n) ==
    /\ response.kind # "pending"
    /\ ~prev.called
    /\ request.limit # JInt(n)
    /\ prev' = [called |-> TRUE, limit |-> request.limit, response |-> response]
    /\ request' = [request EXCEPT !.limit = JInt(n)]
    /\ response' = handle(request')
    /\ UNCHANGED <<gaps, an, gen>>

\* the host calls again with the same request, the files unchanged
HandleAgain ==
    /\ response.kind # "pending"
    /\ ~prev.called
    /\ prev' = [called |-> TRUE, limit |-> request.limit, response |-> response]
    /\ response' = handle(request)
    /\ UNCHANGED <<request, gaps, an, gen>>

\* the command line runs find_coverage_gaps() on a report file that holds
\* the request's inline document, with the request's root; it has no
\* filter, threshold, limit or format to pass
FindCoverageGaps ==
    /\ gaps.kind = "pending"
    /\ request.coverage.t = "dict" /\ request.coverage.artifact_id = ""
    /\ request.priority_filter = Absent /\ request.fail_on = Absent
    /\ request.limit = Absent /\ request.format = Absent
    /\ ~request.has_resolver
    /\ gaps' = find_coverage_gaps(ReportFile(request.coverage), request.repo_root)
    /\ UNCHANGED <<request, response, prev, an, gen>>

Next ==
    \/ Handle
    \/ \E n \in 1..MaxLimit : HandleWithLimit(n)
    \/ HandleAgain
    \/ FindCoverageGaps

Spec == Init /\ [][Next]_vars

-----------------------------------------------------------------------------
(* SpecParse: one coverage.json document is parsed by CoverageParser, the  *)
(* percentages of the report are read, and the same document is passed     *)
(* inline to handle().                                                     *)

\* values of file entries: every key absent, empty arrays, arrays with a
\* value twice, branch keys that are and are not integers, and values of
\* other types
ParseRecords ==
    {FileRecord(NoLines, NoLines, NoLines, Branches("absent", <<>>)),
     FileRecord(LineList(<<>>), LineList(<<>>), LineList(<<>>), Branches("dict", <<>>)),
     FileRecord(LineList(<<1, 2>>), LineList(<<3>>), LineList(<<5>>),
                Branches("dict", <<BranchEntry(<<"2">>, LineList(<<3, 5>>))>>)),
     FileRecord(LineList(<<1, 1, 2>>), LineList(<<3, 4, 3>>), LineList(<<5, 5>>),
                Branches("absent", <<>>)),
     FileRecord(LineList(<<2, 1>>), LineList(<<3>>), NoLines,
                Branches("dict", <<BranchEntry(<<"x">>, LineList(<<1>>)),
                                   BranchEntry(<<"2">>, LineList(<<3>>))>>)),
     FileRecord(LineList(<<1, 2>>), LineList(<<3>>), NoLines,
                Branches("dict", <<BranchEntry(<<"2">>, LineList(<<3>>)),
                                   BranchEntry(<<"x">>, LineList(<<1>>)),
                                   BranchEntry(<<" ", "4">>, LineList(<<1, 2>>))>>)),
     FileRecord(LineList(<<1>>), LineList(<<2, 3>>), LineList(<<>>),
                Branches("dict", <<BranchEntry(<<"2">>, Lines("int", <<>>)),
                                   BranchEntry(<<"3">>, LineList(<<4>>))>>)),
     FileRecord(LineList(<<1>>), LineList(<<>>), NoLines,
                Branches("dict", <<BranchEntry(<<>>, LineList(<<1>>)),
                                   BranchEntry(<<"2", ".", "5">>, LineList(<<3>>)),
                                   BranchEntry(<<"1", "_", "0">>, LineList(<<1>>)),
                                   BranchEntry(<<"-", "1">>, LineList(<<2>>))>>)),
     FileRecord(NoLines, LineList(<<1>>), NoLines,
                Branches("dict", <<BranchEntry(<<"+", "2">>, LineList(<<>>)),
                                   BranchEntry(<<"3">>, LineList(<<3, 3>>))>>)),
     FileRecord(LineList(<<1>>), LineList(<<2>>), NoLines, Branches("list", <<>>)),
     FileRecord(LineList(<<1>>), LineList(<<2>>), Lines("int", <<>>), Branches("absent", <<>>))}

\* the documents: at most MaxFiles entries, no path twice, or a document
\* with no files key
ParseDocuments ==
    {Coverage("dict", "", "", FALSE, TRUE, FilesDict(<<>>))}
    \cup
    UNION {{Inline([i \in 1..n |-> FileEntry(ps[i], rs[i])]) :
               ps \in {q \in [1..n -> {PathValidator, PathUtils, PathParser}] :
                          \A i, j \in 1..n : i # j => q[i] # q[j]},
               rs \in [1..n -> ParseRecords]} : n \in 0..MaxFiles}

InitParse ==
    /\ request \in {PlainRequest(d.files.entries, Absent, Absent, Absent) :
                       d \in {c \in ParseDocuments : c.has_files}}
                    \cup
                    {Request(c, <<>>, Absent, Absent, Absent, Absent, FALSE) :
                       c \in {c \in ParseDocuments : ~c.has_files}}
    /\ response = NotCalled
    /\ gaps = [kind |-> "pending", exc |-> "", report |-> CoverageReport(<<>>, 0, 0),
               coverage_percent |-> [num |-> 100, den |-> 1], file_percents |-> <<>>]
    /\ prev = NoPrev
    /\ an = IdleAn
    /\ gen = IdleGen

\* report = parser.parse(coverage_path), the file holding the document:
\* gaps holds the report returned or the exception raised, then the
\* percentages read
Parse ==
    /\ gaps.kind = "pending"
    /\ LET report == parse(ReportFile(request.coverage))
       IN gaps' = IF report.ok
                  THEN [gaps EXCEPT !.kind = "parsed", !.report = report]
                  ELSE [gaps EXCEPT !.kind = "raised", !.exc = report.exc]
    /\ UNCHANGED <<request, response, prev, an, gen>>

\* report.coverage_percent and the coverage_percent of every file are read
CoveragePercent ==
    /\ gaps.kind = "parsed"
    /\ gaps' = [gaps EXCEPT
                  !.kind = "read",
                  !.coverage_percent = report_coverage_percent(gaps.report),
                  !.file_percents = [i \in DOMAIN gaps.report.files |->
                                        file_coverage_percent(gaps.report.files[i])]]
    /\ UNCHANGED <<request, response, prev, an, gen>>

NextParse == Parse \/ CoveragePercent \/ Handle

SpecParse == InitParse /\ [][NextParse]_vars


-----------------------------------------------------------------------------
(* Properties.  Each is stated from what a caller can observe (the request, *)
(* the response, the files opened) and from the documented meaning of the  *)
(* fields, not from the operators that compute the response.               *)

\* the severity levels at or above p
AtOrAbove(p) ==
    CASE p = "critical" -> {"critical"}
      [] p = "high" -> {"critical", "high"}
      [] p = "medium" -> {"critical", "high", "medium"}
      [] OTHER -> LEVELS

\* the rank of a priority in the order critical < high < medium < low
Rank(priority) ==
    CASE priority = "critical" -> 0
      [] priority = "high" -> 1
      [] priority = "medium" -> 2
      [] OTHER -> 3

NonDecreasingRank(suggestions) ==
    \A i, j \in DOMAIN suggestions :
        i < j => Rank(suggestions[i].priority) <= Rank(suggestions[j].priority)

\* the request's coverage loads and is analysed without an exception
OnSuccessPath ==
    /\ LoadRequest(request).ok
    /\ analyze_coverage_data(LoadRequest(request).data, request.repo_root).ok

\* the gating outcome the documentation gives for a threshold
Gate(kept, fail_on) ==
    CASE fail_on \in {Absent, JStr("none")} -> 0
      [] fail_on = JStr("any") -> IF kept # <<>> THEN 2 ELSE 0
      [] fail_on = JStr("critical") ->
            IF \E i \in DOMAIN kept : kept[i].priority = "critical" THEN 2 ELSE 0
      [] fail_on = JStr("high") ->
            IF \E i \in DOMAIN kept : kept[i].priority \in {"critical", "high"}
            THEN 2 ELSE 0

DocumentedThresholds ==
    {Absent, JStr("none"), JStr("any"), JStr("critical"), JStr("high")}

-----------------------------------------------------------------------------
\* C1: a second call that differs from the first only in limit = n > 0
\* returns the same exit_code, total_suggestions, by_priority and warnings
\* as the first, over the same post-filter list, and its result.suggestions
\* is the first min(n, total_suggestions) entries of that list.
C1_LimitOnlyTruncates ==
    (prev.called /\ request.limit # prev.limit) =>
        LET n == request.limit.n
            total == response.result.total_suggestions
        IN /\ prev.response.kind = "returned" =>
                /\ response.kind = "returned"
                /\ response.exit_code = prev.response.exit_code
                /\ response.result.total_suggestions =
                       prev.response.result.total_suggestions
                /\ response.result.by_priority = prev.response.result.by_priority
                /\ response.warnings = prev.response.warnings
                /\ response.filtered = prev.response.filtered
           /\ response.kind = "returned" =>
                /\ total = Len(response.filtered)
                /\ response.result.suggestions =
                       SubSeq(response.filtered, 1, IF n < total THEN n ELSE total)
           /\ (prev.response.kind = "returned" /\ prev.limit = Absent) =>
                prev.response.result.suggestions = response.filtered

\* fail_on = "any" and limit = 1 added on a report with at least two gaps:
\* exit code 2, the full count, one suggestion returned
C1_Witness ==
    /\ prev.called /\ prev.limit = Absent
    /\ request.fail_on = JStr("any") /\ request.limit = JInt(1)
    /\ response.kind = "returned" /\ response.exit_code = 2
    /\ response.result.total_suggestions >= 2
    /\ Len(response.result.suggestions) = 1

C3_FilterKeepsAtOrAbove ==
    (/\ response.kind = "returned"
     /\ request.priority_filter.t = "str" /\ request.priority_filter.s \in LEVELS
     /\ LoadRequest(request).ok) =>
        LET p == request.priority_filter.s
            analysed == analyze_coverage_data(LoadRequest(request).data,
                                              request.repo_root)
            Kept(s) == s.priority \in AtOrAbove(p)
            kept == SelectSeq(analysed.suggestions, Kept)
            returned == response.result.suggestions
        IN analysed.ok =>
           /\ response.filtered = kept
           /\ \A i \in DOMAIN returned : Kept(returned[i])
           /\ \A q \in LEVELS \ AtOrAbove(p) : response.result.by_priority[q] = 0
           /\ \A q \in LEVELS :
                  response.result.by_priority[q] =
                      Cardinality({i \in DOMAIN kept : kept[i].priority = q})
           /\ response.result.total_suggestions = Len(kept)
           /\ response.exit_code = 2 => kept # <<>>
           /\ request.fail_on \in DocumentedThresholds =>
                  response.exit_code = Gate(kept, request.fail_on)

\* priority_filter = "high" drops a medium suggestion and keeps another
C3_Witness ==
    /\ response.kind = "returned" /\ OnSuccessPath
    /\ request.priority_filter = JStr("high")
    /\ response.filtered # <<>>
    /\ LET all == analyze_coverage_data(LoadRequest(request).data,
                                        request.repo_root).suggestions
       IN \E i \in DOMAIN all : all[i].priority = "medium"

\* C4: the suggestions handle() returns, and those find_coverage_gaps()
\* returns, have non-decreasing priority rank throughout.
C4_SortedByPriority ==
    /\ response.kind = "returned" => NonDecreasingRank(response.result.suggestions)
    /\ gaps.kind = "returned" => NonDecreasingRank(gaps.suggestions)

\* key1 <= key2 in the lexicographic order (rank, test_file, first line)
KeyNotGreater(s1, s2) ==
    LET line1 == IF s1.covers_lines # <<>> THEN s1.covers_lines[1] ELSE 0
        line2 == IF s2.covers_lines # <<>> THEN s2.covers_lines[1] ELSE 0
    IN \/ Rank(s1.priority) < Rank(s2.priority)
       \/ /\ Rank(s1.priority) = Rank(s2.priority)
          /\ \/ StrLess(s1.test_file, s2.test_file)
             \/ s1.test_file = s2.test_file /\ line1 <= line2

\* C5: the list generate() returns is sorted non-decreasingly by
\* (priority rank, test_file, first covered line).
C5_GenerateSorted ==
    gen.phase = "returned" =>
        \A i, j \in DOMAIN gen.suggestions :
            i < j => KeyNotGreater(gen.suggestions[i], gen.suggestions[j])

\* generate() returned two suggestions in the reverse of the block order
C5_Witness ==
    /\ gen.phase = "returned" /\ Len(gen.blocks) = 2
    /\ gen.blocks[1].block_type = "code_block"
    /\ gen.blocks[2].block_type = "raise_statement"
    /\ gen.suggestions[1].block_type = "raise_statement"

\* the priority the documentation gives a block
ExpectedPriority(block_type, has_function) ==
    IF block_type \in {"exception_handler", "raise_statement"} THEN "critical"
    ELSE IF block_type \in {"if_true_branch", "if_false_branch"} THEN "high"
    ELSE IF has_function THEN "medium"
    ELSE "low"

\* C6: the priority of a suggestion is that of its block alone: critical
\* for an exception handler or a raise, high for an if branch, medium for
\* another block inside a function, low otherwise; it is one of the four
\* levels.
C6_PriorityOfBlock ==
    /\ gen.phase = "called" =>
          \A i \in DOMAIN gen.suggestions :
              gen.suggestions[i].priority =
                  ExpectedPriority(gen.blocks[i].block_type,
                                   gen.blocks[i].function_name \notin {NONE, ""})
    /\ \A i \in DOMAIN gen.suggestions :
          /\ gen.suggestions[i].priority \in LEVELS
          /\ gen.suggestions[i].priority =
                 ExpectedPriority(gen.suggestions[i].block_type,
                                  gen.suggestions[i].description.in_function # NONE)

\* a medium suggestion and a high or low one have been returned
C6_Witness ==
    /\ \E i \in DOMAIN gen.suggestions : gen.suggestions[i].priority = "medium"
    /\ \E i \in DOMAIN gen.suggestions :
          gen.suggestions[i].priority \in {"high", "low"}
    /\ gen.phase = "returned"

\* a coverage document with every part of the documented type
WellTyped(coverage) ==
    /\ coverage.t = "dict" /\ coverage.artifact_id = ""
    /\ coverage.has_files /\ coverage.files.t = "dict"
    /\ \A i \in DOMAIN coverage.files.entries :
          LET data == coverage.files.entries[i].data
          IN /\ data.t = "dict"
             /\ data.executed_lines.t \in {"list", "absent"}
             /\ data.missing_lines.t \in {"list", "absent"}

MissingOf(entry) ==
    IF entry.data.missing_lines.t = "list" THEN Range(entry.data.missing_lines.v)
    ELSE {}

ActualPath(entry, root) ==
    IF root # <<>> THEN JoinPath(root, entry.path) ELSE entry.path

RECURSIVE ReadableSuggestions(_, _)
\* the suggestions of the files that have missing lines and can be read,
\* file after file
ReadableSuggestions(entries, root) ==
    IF entries = <<>> THEN <<>>
    ELSE LET e == Head(entries)
             file == FileSystem(ActualPath(e, root))
         IN (IF MissingOf(e) # {} /\ file.status = "ok"
             THEN generate(AnalyzeFile(file.source, MissingOf(e), e.path), e.path)
             ELSE <<>>)
            \o ReadableSuggestions(Tail(entries), root)

\* what C7 says of one run (of handle or of find_coverage_gaps) over the
\* entries: one warning for each file with missing lines that cannot be
\* read, the files with missing lines opened in order and no other, and
\* the suggestions of every readable file
FilesSkippedOneByOne(entries, root, warnings, opened, suggestions, unfiltered) ==
    LET index == [i \in 1..Len(entries) |-> i]
        HasMissing(i) == MissingOf(entries[i]) # {}
        with_missing == SelectSeq(index, HasMissing)
        unreadable == {i \in DOMAIN entries :
                          /\ HasMissing(i)
                          /\ FileSystem(ActualPath(entries[i], root)).status # "ok"}
    IN /\ Len(warnings) = Cardinality(unreadable)
       /\ Range(warnings) =
              {ReadWarning(FileSystem(ActualPath(entries[i], root)).status,
                           ActualPath(entries[i], root)) : i \in unreadable}
       /\ opened = [k \in DOMAIN with_missing |->
                       ActualPath(entries[with_missing[k]], root)]
       /\ unfiltered => suggestions = ReadableSuggestions(entries, root)

\* C7: in handle() and in find_coverage_gaps(), each file with missing
\* lines whose source cannot be read gives exactly one warning and no
\* suggestion, every readable file still gives its suggestions, a file
\* without missing lines is not opened and gives no warning, and handle()
\* does not answer exit_code 1 for it.
C7_UnreadableFilesSkipped ==
    WellTyped(request.coverage) =>
        LET entries == request.coverage.files.entries
        IN /\ response.kind = "returned" =>
                /\ response.exit_code # 1
                /\ FilesSkippedOneByOne(entries, request.repo_root, response.warnings,
                                        response.opened, response.filtered,
                                        ~Truthy(Get(request.priority_filter, JNull)))
           /\ gaps.kind = "returned" =>
                FilesSkippedOneByOne(entries, request.repo_root, gaps.warnings,
                                     gaps.opened, gaps.suggestions, TRUE)

\* an unreadable file followed by a readable one: both runs give one
\* warning and the suggestions of the second file
C7_Witness ==
    /\ WellTyped(request.coverage)
    /\ Len(request.coverage.files.entries) = 2
    /\ MissingOf(request.coverage.files.entries[1]) # {}
    /\ FileSystem(ActualPath(request.coverage.files.entries[1],
                             request.repo_root)).status # "ok"
    /\ response.kind = "returned" /\ Len(response.warnings) = 1
    /\ response.result.suggestions # <<>>
    /\ gaps.kind = "returned" /\ Len(gaps.warnings) = 1 /\ gaps.suggestions # <<>>

\* a request with a missing or wrong-typed field or an artifact reference
\* that cannot be resolved
ShapeError(req) ==
    \/ req.coverage.t # "dict"
    \/ /\ req.coverage.artifact_id # ""
       /\ ~LoadRequest(req).ok
    \/ req.limit.t \in {"str", "list"}
    \/ req.priority_filter.t \in {"int", "list"}
    \/ req.fail_on.t \in {"int", "list"}
    \/ /\ req.coverage.artifact_id = "" /\ req.coverage.has_files
       /\ \/ req.coverage.files.t # "dict"
          \/ \E i \in DOMAIN req.coverage.files.entries :
                LET data == req.coverage.files.entries[i].data
                IN \/ data.t # "dict"
                   \/ data.executed_lines.t \in {"int", "null", "str"}
                   \/ data.missing_lines.t \in {"int", "null", "str"}

\* C8: handle() lets no exception escape, and answers every request-shape
\* error with exit_code 1, the zeroed result and a warning.
C8_ShapeErrorsReported ==
    response.kind # "pending" =>
        /\ response.kind = "returned"
        /\ ShapeError(request) =>
              /\ response.exit_code = 1
              /\ response.result = EmptyResult
              /\ response.warnings # <<>>

\* the maximal runs of consecutive integers of S, as pairs (first, last)
Runs(S) ==
    {r \in S \X S : /\ r[1] <= r[2]
                    /\ (r[1]..r[2]) \subseteq S
                    /\ (r[1] - 1) \notin S
                    /\ (r[2] + 1) \notin S}

\* C9: for a source that does not parse, analyze() returns one code_block
\* block for each maximal run of consecutive missing lines, from the run's
\* first line to its last, in ascending order; the blocks are disjoint,
\* cover exactly the missing lines, and there is one at least when a line
\* is missing.
C9_FallbackBlocks ==
    (an.phase = "returned" /\ ~SourceText(an.source_code).parses) =>
        LET blocks == an.uncovered_blocks
        IN /\ \A i \in DOMAIN blocks : blocks[i].block_type = "code_block"
           /\ {<<blocks[i].start_line, blocks[i].end_line>> : i \in DOMAIN blocks}
                  = Runs(an.missing_lines)
           /\ Len(blocks) = Cardinality(Runs(an.missing_lines))
           /\ \A i, j \in DOMAIN blocks :
                  i < j => blocks[i].end_line < blocks[j].start_line
           /\ UNION {blocks[i].start_line .. blocks[i].end_line : i \in DOMAIN blocks}
                  = an.missing_lines
           /\ an.missing_lines # {} => Len(blocks) >= 1

\* the fallback returned two blocks, one of them three lines long or more
C9_Witness ==
    /\ an.phase = "returned" /\ ~SourceText(an.source_code).parses
    /\ Len(an.uncovered_blocks) = 2
    /\ \E i \in DOMAIN an.uncovered_blocks :
          an.uncovered_blocks[i].end_line >= an.uncovered_blocks[i].start_line + 2

\* C10: with no missing line, analyze() returns no block, whether the
\* source parses or not.
C10_NoMissingNoBlocks ==
    (an.phase = "returned" /\ an.missing_lines = {}) => an.uncovered_blocks = <<>>

\* analyze() walked the tree of a function with an empty missing set
C10_Witness ==
    /\ an.phase = "returned" /\ an.missing_lines = {}
    /\ SourceText(an.source_code).parses
    /\ \E n \in DOMAIN an.tree : an.tree[n].kind = "FunctionDef"

-----------------------------------------------------------------------------
SpanOf(block) ==
    [k \in 1..(block.end_line - block.start_line + 1) |-> block.start_line + k - 1]

\* C12: every block analyze() emits, on the tree path and on the fallback
\* path, has start_line <= end_line; generate() returns as many suggestions
\* as it was given blocks, each with a non-empty contiguous covers_lines,
\* and the suggestions match the blocks one to one: as many suggestions
\* carry a block's block_type and its lines start_line..end_line as there
\* are blocks with that type and those lines.
C12_OneSuggestionPerBlock ==
    /\ \A i \in DOMAIN an.uncovered_blocks :
          an.uncovered_blocks[i].start_line <= an.uncovered_blocks[i].end_line
    /\ gen.phase = "returned" =>
          /\ Len(gen.suggestions) = Len(gen.blocks)
          /\ \A j \in DOMAIN gen.suggestions :
                LET lines == gen.suggestions[j].covers_lines
                IN /\ lines # <<>>
                   /\ \A k \in 1..(Len(lines) - 1) : lines[k + 1] = lines[k] + 1
          /\ \A i \in DOMAIN gen.blocks :
                Cardinality({j \in DOMAIN gen.suggestions :
                                /\ gen.suggestions[j].block_type = gen.blocks[i].block_type
                                /\ gen.suggestions[j].covers_lines = SpanOf(gen.blocks[i])})
                = Cardinality({h \in DOMAIN gen.blocks :
                                /\ gen.blocks[h].block_type = gen.blocks[i].block_type
                                /\ SpanOf(gen.blocks[h]) = SpanOf(gen.blocks[i])})

\* generate() was given three blocks or more, one of several lines and one
\* of a single line, and returned them in another order
C12_Witness ==
    /\ gen.phase = "returned" /\ Len(gen.blocks) >= 3
    /\ \E i \in DOMAIN gen.blocks : gen.blocks[i].end_line > gen.blocks[i].start_line
    /\ \E i \in DOMAIN gen.blocks : gen.blocks[i].end_line = gen.blocks[i].start_line
    /\ gen.suggestions[1].block_type # gen.blocks[1].block_type

\* the parent segments that are left out of a test file name
IgnoredParents == {"src", "lib", ".", "app"}

\* the immediate parent segment of a path that has one
ParentOf(path) == path.dirs[Len(path.dirs)]

\* the test file the documentation gives a source path
DocumentedTestFile(path) ==
    IF path.dirs # <<>> /\ ParentOf(path) \notin IgnoredParents
    THEN "tests/test_" \o ParentOf(path) \o "_" \o path.stem \o ".py"
    ELSE "tests/test_" \o path.stem \o ".py"

ValuesOf(array) == IF array.t = "list" THEN {array.v[k] : k \in DOMAIN array.v} ELSE {}

RECURSIVE SumOfSizes(_)
\* the sum of the sizes of a sequence of sets
SumOfSizes(sets) ==
    IF sets = <<>> THEN 0 ELSE Cardinality(Head(sets)) + SumOfSizes(Tail(sets))

\* C14: the report parse() returns has one FileCoverage for every file of
\* the document, under its path, whose covered, missing and excluded line
\* sets are the sets of the values of the executed_lines, missing_lines and
\* excluded_lines arrays (a value given twice counted once, an absent array
\* giving the empty set), and its total_covered and total_missing are the
\* sums over the files of the sizes of the covered and of the missing sets.
C14_ParsedSets ==
    gaps.kind \in {"parsed", "read"} =>
        LET entries == request.coverage.files.entries
            files == gaps.report.files
        IN /\ Len(files) = Len(entries)
           /\ \A i \in DOMAIN files :
                 /\ files[i].path = entries[i].path
                 /\ files[i].covered_lines.v = ValuesOf(entries[i].data.executed_lines)
                 /\ files[i].missing_lines.v = ValuesOf(entries[i].data.missing_lines)
                 /\ files[i].excluded_lines.v = ValuesOf(entries[i].data.excluded_lines)
           /\ gaps.report.total_covered
                 = SumOfSizes([i \in DOMAIN files |-> files[i].covered_lines.v])
           /\ gaps.report.total_missing
                 = SumOfSizes([i \in DOMAIN files |-> files[i].missing_lines.v])

\* a parsed document of two files, one with values given twice in its
\* arrays and one with no arrays
C14_Witness ==
    /\ gaps.kind = "parsed"
    /\ Len(request.coverage.files.entries) = 2
    /\ request.coverage.files.entries[1].data.executed_lines = LineList(<<1, 1, 2>>)
    /\ request.coverage.files.entries[1].data.excluded_lines = LineList(<<5, 5>>)
    /\ request.coverage.files.entries[2].data.missing_lines = NoLines
    /\ gaps.report.files[1].covered_lines.v = {1, 2}
    /\ gaps.report.files[1].excluded_lines.v = {5}
    /\ gaps.report.total_covered = 2
    /\ gaps.report.total_missing = 2

\* the entries of a missing_branches mapping whose key parses as an integer
\* and whose value is a list of targets
EdgeEntries(entries) ==
    {i \in DOMAIN entries : int(entries[i].key).ok /\ entries[i].targets.t = "list"}

\* the number of (key, target) pairs of such entries before entry i
PairsBefore(entries, i) ==
    Cardinality({p \in EdgeEntries(entries) \X (1..MaxLine) :
                    p[1] < i /\ p[2] \in DOMAIN entries[p[1]].targets.v})

\* the file values that make parse() raise for another reason than a
\* branch key
RaisingRecord(data) ==
    \/ Unsized(data.executed_lines) \/ Unsized(data.missing_lines)
    \/ Unsized(data.excluded_lines)
    \/ data.missing_branches.t \notin {"absent", "dict"}

\* C15: in the report parse() returns, the missing_branches of every file
\* hold one (from_line, to_line) edge for every (key, target) pair of the
\* file's mapping whose key parses as an integer, from_line being that
\* integer, in the order of the document, and nothing else; and a key that
\* does not parse as an integer does not make parse() raise: parse() only
\* raises for a document that has a file with a line array or a mapping of
\* another type.
C15_BranchEdges ==
    /\ gaps.kind \in {"parsed", "read"} =>
          \A f \in DOMAIN gaps.report.files :
              LET entries == request.coverage.files.entries[f].data.missing_branches.entries
                  edges == gaps.report.files[f].missing_branches
              IN /\ Len(edges) = PairsBefore(entries, Len(entries) + 1)
                 /\ \A i \in EdgeEntries(entries) :
                        \A k \in DOMAIN entries[i].targets.v :
                            edges[PairsBefore(entries, i) + k]
                                = <<int(entries[i].key).n, entries[i].targets.v[k]>>
    /\ gaps.kind = "raised" =>
          \E f \in DOMAIN request.coverage.files.entries :
              RaisingRecord(request.coverage.files.entries[f].data)

\* a parsed document of two files: the mapping of the first has a key that
\* is no integer between two that are, the second has one key with two
\* targets
C15_Witness ==
    /\ gaps.kind = "parsed"
    /\ Len(gaps.report.files) = 2
    /\ LET entries == request.coverage.files.entries[1].data.missing_branches.entries
       IN /\ Len(entries) = 3
          /\ ~int(entries[2].key).ok
          /\ int(entries[1].key).ok /\ int(entries[3].key).ok
    /\ gaps.report.files[1].missing_branches = <<<<2, 3>>, <<4, 1>>, <<4, 2>>>>
    /\ gaps.report.files[2].missing_branches = <<<<2, 3>>, <<2, 5>>>>

\* the documents whose files have no covered and no missing line
NoLinesAtAll(coverage) ==
    \A f \in DOMAIN coverage.files.entries :
        /\ ValuesOf(coverage.files.entries[f].data.executed_lines) = {}
        /\ ValuesOf(coverage.files.entries[f].data.missing_lines) = {}

\* C16: coverage_percent is 100.0 wherever covered plus missing lines are
\* zero: for every FileCoverage of a parsed report with no covered and no
\* missing line, for a CoverageReport whose totals are zero, and in the
\* result of a successful handle() response for a document whose files have
\* no covered and no missing line.
C16_HundredWhenNoLines ==
    /\ gaps.kind = "read" =>
          /\ \A i \in DOMAIN gaps.report.files :
                (gaps.report.files[i].covered_lines.v \cup
                 gaps.report.files[i].missing_lines.v = {})
                   => gaps.file_percents[i] = [num |-> 100, den |-> 1]
          /\ gaps.report.total_covered + gaps.report.total_missing = 0
                => gaps.coverage_percent = [num |-> 100, den |-> 1]
    /\ (response.kind = "returned" /\ response.exit_code = 0
        /\ NoLinesAtAll(request.coverage))
          => response.result.coverage_percent = 10000

\* a document of two files without lines, parsed and read, and handled
C16_Witness ==
    /\ gaps.kind = "read"
    /\ response.kind = "returned" /\ response.exit_code = 0
    /\ Len(request.coverage.files.entries) = 2
    /\ NoLinesAtAll(request.coverage)
    /\ request.coverage.files.entries[1].data.executed_lines = LineList(<<>>)
    /\ request.coverage.files.entries[2].data.executed_lines = NoLines
    /\ gaps.report.total_covered + gaps.report.total_missing = 0
    /\ Len(gaps.file_percents) = 2
    /\ response.result.files_analyzed = 2

\* an inline payload: an object without artifact_id
InlinePayload(coverage) == coverage.t = "dict" /\ coverage.artifact_id = ""

\* C17: handle() accepts an inline payload only when it has a files key:
\* an inline payload without the files key is answered with exit_code 1,
\* the zeroed result and the one warning that coverage data must contain
\* the 'files' key, and no source file is opened for it.
C17_InlineNeedsFiles ==
    (/\ response.kind # "pending"
     /\ InlinePayload(request.coverage)
     /\ ~request.coverage.has_files) =>
        /\ response.kind = "returned"
        /\ response.exit_code = 1
        /\ response.result = EmptyResult
        /\ response.warnings
              = <<"coverage data must contain 'files' key (coverage.json format)">>
        /\ response.opened = <<>>

\* C18: the blocks analyze() returns have pairwise different
\* (start_line, end_line) pairs.
C18_NoSpanTwice ==
    an.phase = "returned" =>
        \A i, j \in DOMAIN an.uncovered_blocks :
            i # j => <<an.uncovered_blocks[i].start_line, an.uncovered_blocks[i].end_line>>
                        # <<an.uncovered_blocks[j].start_line,
                            an.uncovered_blocks[j].end_line>>

RECURSIVE Innermost(_, _, _)
\* the name of the nearest definition of one of the kinds among the
\* ancestors of node n of a tree, or NONE
Innermost(nodes, n, kinds) ==
    LET parents == {m \in DOMAIN nodes : n \in Range(nodes[m].children)}
    IN IF parents = {} THEN NONE
       ELSE LET m == CHOOSE m \in parents : TRUE
            IN IF nodes[m].kind \in kinds THEN nodes[m].name
               ELSE Innermost(nodes, m, kinds)

\* the nodes of a tree a block can have been emitted for
NodesOfBlock(nodes, block) ==
    {n \in DOMAIN nodes :
        CASE block.block_type = "if_true_branch" ->
                nodes[n].kind = "If" /\ nodes[n].lineno = block.start_line
          [] block.block_type = "if_false_branch" ->
                /\ nodes[n].kind = "If"
                /\ \E c \in Range(nodes[n].orelse) : nodes[c].lineno = block.start_line
          [] block.block_type = "exception_handler" ->
                nodes[n].kind = "ExceptHandler" /\ nodes[n].lineno = block.start_line
          [] block.block_type = "return_statement" ->
                nodes[n].kind = "Return" /\ nodes[n].lineno = block.start_line
          [] block.block_type = "raise_statement" ->
                nodes[n].kind = "Raise" /\ nodes[n].lineno = block.start_line
          [] block.block_type = "for_loop" ->
                nodes[n].kind = "For" /\ nodes[n].lineno = block.start_line
          [] block.block_type = "while_loop" ->
                nodes[n].kind = "While" /\ nodes[n].lineno = block.start_line
          [] OTHER -> FALSE}

\* C19: every block analyze() returns for a source that parses was emitted
\* for a node of the tree, and carries as function_name the name of the
\* innermost function definition around that node and as class_name the
\* name of the innermost class around it, or none.
C19_InnermostContext ==
    (an.phase = "returned" /\ SourceText(an.source_code).parses) =>
        LET nodes == SourceText(an.source_code).nodes
        IN \A i \in DOMAIN an.uncovered_blocks :
               \E n \in NodesOfBlock(nodes, an.uncovered_blocks[i]) :
                   /\ an.uncovered_blocks[i].function_name
                         = Innermost(nodes, n, {"FunctionDef", "AsyncFunctionDef"})
                   /\ an.uncovered_blocks[i].class_name
                         = Innermost(nodes, n, {"ClassDef"})


\* a condition string of a block that mentions the test of an if: of the
\* strings the analyzer builds, those of the two branch blocks
Mentions(condition, test) ==
    condition \in {"when " \o test \o " is True", "when " \o test \o " is False"}

\* C20: for a function with an if whose true body holds a return statement,
\* when the line of that return is the only missing line and the line of
\* the if is covered, analyze() returns a block whose range covers the line
\* of the return, whose condition mentions the test of the if, and whose
\* type is if_true_branch or return_statement.
C20_IfBodyBlock ==
    (an.phase = "returned" /\ SourceText(an.source_code).parses) =>
        LET nodes == SourceText(an.source_code).nodes
        IN \A n \in DOMAIN nodes : \A c \in Range(nodes[n].body) :
               (/\ nodes[n].kind = "If" /\ nodes[c].kind = "Return"
                /\ nodes[n].lineno # nodes[c].lineno
                /\ an.missing_lines = {nodes[c].lineno}) =>
                   \E i \in DOMAIN an.uncovered_blocks :
                       LET block == an.uncovered_blocks[i]
                       IN /\ block.start_line <= nodes[c].lineno
                          /\ nodes[c].lineno <= block.end_line
                          /\ block.block_type \in {"if_true_branch", "return_statement"}
                          /\ Mentions(block.condition, nodes[n].text)

\* the lines of the statements of a body of a tree, each from its first
\* line through its last
LinesOfBody(nodes, body) ==
    UNION {nodes[c].lineno .. nodes[c].end_lineno : c \in Range(body)}

\* the blocks of a type that were emitted for the if with the given test
BranchBlocks(blocks, type, flag, test) ==
    {i \in DOMAIN blocks :
        /\ blocks[i].block_type = type
        /\ blocks[i].condition = "when " \o test \o " is " \o flag}

\* C21: for every if of a function whose line is missing (an analysed if):
\* an if_true_branch block is emitted iff a line of the true body is
\* missing, from the line of the if through the last missing line of that
\* body; an if_false_branch block is emitted iff a line of the else body is
\* missing, from the first line of the first statement of the else body
\* through the last line of its last statement; an if without else yields
\* no if_false_branch.
C21_BranchBlocks ==
    (an.phase = "returned" /\ SourceText(an.source_code).parses) =>
        LET nodes == SourceText(an.source_code).nodes
            blocks == an.uncovered_blocks
        IN \A n \in DOMAIN nodes :
               (nodes[n].kind = "If" /\ nodes[n].lineno \in an.missing_lines) =>
                   LET true_lines == LinesOfBody(nodes, nodes[n].body)
                                        \cap an.missing_lines
                       else_lines == LinesOfBody(nodes, nodes[n].orelse)
                       when_true == BranchBlocks(blocks, "if_true_branch", "True",
                                                 nodes[n].text)
                       when_false == BranchBlocks(blocks, "if_false_branch", "False",
                                                  nodes[n].text)
                   IN /\ (when_true # {}) <=> (true_lines # {})
                      /\ \A i \in when_true :
                            /\ blocks[i].start_line = nodes[n].lineno
                            /\ blocks[i].end_line = Max(true_lines)
                      /\ (when_false # {}) <=> (else_lines \cap an.missing_lines # {})
                      /\ \A i \in when_false :
                            /\ blocks[i].start_line = Min(else_lines)
                            /\ blocks[i].end_line = Max(else_lines)
                      /\ nodes[n].orelse = <<>> => when_false = {}

\* C22: for every for or while loop inside a function, when a line of the
\* loop's span, the header or a body line, is missing, analyze() returns
\* exactly one for_loop or while_loop block for it, over the loop's full
\* line range and with no condition.
C22_LoopBlock ==
    (an.phase = "returned" /\ SourceText(an.source_code).parses) =>
        LET nodes == SourceText(an.source_code).nodes
            blocks == an.uncovered_blocks
        IN \A n \in DOMAIN nodes :
               (/\ nodes[n].kind \in {"For", "While"}
                /\ Innermost(nodes, n, {"FunctionDef", "AsyncFunctionDef"}) # NONE
                /\ (nodes[n].lineno .. nodes[n].end_lineno) \cap an.missing_lines # {}) =>
                   Cardinality({i \in DOMAIN blocks :
                                   /\ blocks[i].block_type
                                         = IF nodes[n].kind = "For" THEN "for_loop"
                                           ELSE "while_loop"
                                   /\ blocks[i].start_line = nodes[n].lineno
                                   /\ blocks[i].end_line = nodes[n].end_lineno
                                   /\ blocks[i].condition = NONE}) = 1

\* the rearrangements of a sequence
Rearrangements(s) ==
    {[i \in DOMAIN s |-> s[p[i]]] :
        p \in {q \in [DOMAIN s -> DOMAIN s] : \A i, j \in DOMAIN s : i # j => q[i] # q[j]}}

\* C23: generate() returns the same suggestion sequence for every
\* rearrangement of the block list it was given.
C23_OrderIndependent ==
    gen.phase = "returned" =>
        \A blocks \in Rearrangements(gen.blocks) :
            generate(blocks, gen.file_path) = gen.suggestions

\* C24: the suggestions generated for the blocks of one analysed file have
\* pairwise different test names.
C24_DistinctTestNames ==
    gen.phase = "returned" =>
        \A i, j \in DOMAIN gen.suggestions :
            i # j => gen.suggestions[i].test_name # gen.suggestions[j].test_name

RECURSIVE Concatenation(_)
\* the sequences of a sequence, one after the other
Concatenation(seqs) ==
    IF seqs = <<>> THEN <<>> ELSE Head(seqs) \o Concatenation(Tail(seqs))

\* what find_coverage_gaps returns for the report that holds file i of
\* the request's document alone
AloneGaps(i) ==
    find_coverage_gaps([ReportFile(request.coverage) EXCEPT
                           !.files.entries = <<request.coverage.files.entries[i]>>],
                       request.repo_root)

\* C25: what find_coverage_gaps returns for a document is, file by file in
\* the order of the report, what it returns for each file alone: the
\* suggestions are the per-file suggestion lists one after the other, not
\* sorted again, and the warnings the per-file warnings one after the
\* other, whatever the other files and their order.
C25_FilesIndependent ==
    (gaps.kind = "returned" /\ WellTyped(request.coverage)) =>
        LET alone == [i \in DOMAIN request.coverage.files.entries |-> AloneGaps(i)]
        IN /\ \A i \in DOMAIN alone : alone[i].kind = "returned"
           /\ gaps.suggestions
                 = Concatenation([i \in DOMAIN alone |-> alone[i].suggestions])
           /\ gaps.warnings
                 = Concatenation([i \in DOMAIN alone |-> alone[i].warnings])

\* a document of two files that both give suggestions, the second file's
\* first suggestion of a higher priority than the first file's last
C25_Witness ==
    /\ gaps.kind = "returned" /\ WellTyped(request.coverage)
    /\ Len(request.coverage.files.entries) = 2
    /\ AloneGaps(1).suggestions # <<>>
    /\ AloneGaps(2).suggestions # <<>>
    /\ LET n == Len(AloneGaps(1).suggestions)
       IN /\ Len(gaps.suggestions) > n
          /\ Rank(gaps.suggestions[n + 1].priority) < Rank(gaps.suggestions[n].priority)

\* what _analyze_coverage_data returns for the request's inline document
\* and root
AdapterAnalysis == analyze_coverage_data(LoadRequest(request).data, request.repo_root)

\* C26: for every well-formed coverage document and every root,
\* _analyze_coverage_data returns the same suggestion sequence and the same
\* warning sequence as find_coverage_gaps run on a report file that holds
\* the document, with the same root.
C26_AdapterMatchesFindCoverageGaps ==
    (gaps.kind \in {"returned", "raised"} /\ WellTyped(request.coverage)) =>
        /\ gaps.kind = "returned"
        /\ LoadRequest(request).ok /\ AdapterAnalysis.ok
        /\ AdapterAnalysis.suggestions = gaps.suggestions
        /\ AdapterAnalysis.warnings = gaps.warnings

\* find_coverage_gaps has returned for a well-formed document and a root
\* that is given, with a suggestion and with a warning
C26_Witness ==
    /\ gaps.kind = "returned" /\ WellTyped(request.coverage)
    /\ request.repo_root # <<>>
    /\ gaps.suggestions # <<>> /\ gaps.warnings # <<>>
    /\ AdapterAnalysis.suggestions = gaps.suggestions

\* how many suggestions of a list have the priority p
CountOf(suggestions, p) ==
    Cardinality({i \in DOMAIN suggestions : suggestions[i].priority = p})

\* the limit of the request is absent, zero or negative
NoLimit(limit) == limit = Absent \/ (limit.t = "int" /\ limit.n <= 0)

\* C27: in every response of handle() the four by_priority counts sum to
\* total_suggestions, the returned suggestions are no more than
\* total_suggestions, of each level no more are returned than its
\* by_priority count, and when the limit is absent, zero or negative the
\* returned list is the whole list the priority filter leaves.
C27_CountsAndLimit ==
    response.kind = "returned" =>
        LET result == response.result
        IN /\ result.by_priority["critical"] + result.by_priority["high"]
                 + result.by_priority["medium"] + result.by_priority["low"]
                 = result.total_suggestions
           /\ Len(result.suggestions) <= result.total_suggestions
           /\ \A p \in Range(PRIORITY_ORDER) :
                 CountOf(result.suggestions, p) <= result.by_priority[p]
           /\ NoLimit(request.limit) => result.suggestions = response.filtered

\* a response to a request with a negative limit: the suggestions the
\* filter leaves are counted and all of them are returned
C27_Witness ==
    /\ response.kind = "returned" /\ response.exit_code # 1
    /\ request.limit = JInt(-1)
    /\ response.result.suggestions # <<>>
    /\ response.result.suggestions = response.filtered
    /\ Len(response.filtered) = response.result.total_suggestions

\* the lines of the function and method definitions of a tree
FunctionLines(nodes) ==
    UNION {nodes[n].lineno .. nodes[n].end_lineno :
              n \in {k \in DOMAIN nodes : nodes[k].kind \in {"FunctionDef", "AsyncFunctionDef"}}}

\* C28: when the source parses, every block analyze() returns has a
\* function_name and lies within the lines of a function or method
\* definition, so missing lines of module-level and class-level statements
\* give no block: a file whose missing lines are all outside the
\* definitions gives no block at all.
C28_OnlyInsideFunctions ==
    (an.phase = "returned" /\ SourceText(an.source_code).parses) =>
        LET nodes == SourceText(an.source_code).nodes
            blocks == an.uncovered_blocks
        IN /\ \A i \in DOMAIN blocks :
                 /\ blocks[i].function_name # NONE
                 /\ (blocks[i].start_line .. blocks[i].end_line) \subseteq FunctionLines(nodes)
           /\ an.missing_lines \cap FunctionLines(nodes) = {} => blocks = <<>>

\* a source that parses, with the line of a module-level if statement and
\* the line of a class statement missing, has given no block and no
\* suggestion
C28_Witness ==
    /\ an.phase = "returned" /\ SourceText(an.source_code).parses
    /\ \E n \in DOMAIN SourceText(an.source_code).nodes :
          LET node == SourceText(an.source_code).nodes[n]
          IN /\ node.kind = "If" /\ node.lineno \in an.missing_lines
             /\ node.lineno \notin FunctionLines(SourceText(an.source_code).nodes)
    /\ \E n \in DOMAIN SourceText(an.source_code).nodes :
          LET node == SourceText(an.source_code).nodes[n]
          IN node.kind = "ClassDef" /\ node.lineno \in an.missing_lines
    /\ an.uncovered_blocks = <<>>
    /\ gen.phase = "returned" /\ gen.suggestions = <<>>

\* one step leaves what the stage at work was handed as it was: the
\* analyzer its source and its missing-line set, generate the block list
\* (which after analyze() is the analyzer's own list), handle() its request;
\* the host alone changes the request, and only its limit, for a second
\* call
FrameStep ==
    /\ an.phase # "idle" =>
          /\ an'.missing_lines = an.missing_lines
          /\ an'.source_code = an.source_code
    /\ (gen.phase = "idle" /\ gen'.phase = "returned") =>
          /\ an' = an
          /\ gen'.blocks = an.uncovered_blocks
    /\ gen.phase = "called" => gen'.blocks = gen.blocks
    /\ (an.phase = "idle" /\ gen.phase = "idle" /\ response' # response) =>
          \/ request' = request
          \/ /\ prev' # prev
             /\ request' = [request EXCEPT !.limit = request'.limit]
             /\ response' = handle(request')

C30_StatisticsAgreeWithParser ==
    (response.kind = "returned" /\ response.exit_code # 1
     /\ gaps.kind \in {"parsed", "read"}) =>
        LET entries == request.coverage.files.entries
            report == gaps.report
        IN /\ SumLines(entries, TRUE) = report.total_covered
           /\ SumLines(entries, FALSE) = report.total_missing
           /\ response.result.coverage_percent
                 = PercentHundredths(report.total_covered,
                                     report.total_covered + report.total_missing)
           /\ response.result.files_with_gaps
                 = Cardinality({i \in DOMAIN report.files :
                                   report.files[i].missing_lines.v # {}})
=============================================================================
